---- MODULE Spec2Model ----
(***************************************************************************)
(* WeFriend: the Firebase Realtime Database paths the client modules       *)
(* write (friends.js, database.js, posts.js, chat.js, notifications.js)    *)
(* and the async operations on them.  Every `await` on a store read or     *)
(* write is one step of a call, so calls of different sessions (or two     *)
(* calls of one session) interleave between their store operations.        *)
(***************************************************************************)
EXTENDS Integers, Sequences, FiniteSets, TLC

\* ------------------------------------------------------------------ bounds
\* Number of calls started in one behaviour.
MaxCalls == 3
\* Number of calls in flight at once.
MaxInFlight == 2

Calls == 1..MaxCalls

\* ------------------------------------------------------------------ domains
Null == "null"
Users == {"u1", "u2"}
Names == {"alice", "bob", "zed"}
PostIds == {"p1", "p2"}
\* what a missing field reads as when it is used as a path segment
Undefined == "undefined"
\* a comment text that trims to nothing, and one that does not
Texts == {" ", "nice"}
Trim(text) == IF text = " " THEN "" ELSE text
\* message texts: one that is blank and one that is not
MessageTexts == {" ", "hi"}

\* An absent number is the empty set, a present one a singleton
\* (snapshot.val().x is undefined when the path holds nothing).
None == {}
Some(n) == {n}
OrZero(o) == IF o = None THEN 0 ELSE CHOOSE n \in o : TRUE

\* Firebase orders keys as strings; the uids compare like their ranks.
Rank(u) == CASE u = "u1" -> 1 [] u = "u2" -> 2 [] OTHER -> 3

VARIABLES
    users,           \* users/{uid}: the profile, or NoProfile
    usernames,       \* usernames/{name} -> uid, or Null
    friends,         \* <<a, b>> is in it iff friends/{a}/{b} exists
    friendRequests,  \* <<to, from>> is in it iff friendRequests/{to}/{from} exists
    notifications,   \* notifications/{owner}: the pushed records, in push order
    posts,           \* posts/{postId}: the fields stored under it
    userPosts,       \* <<uid, postId>> is in it iff userPosts/{uid}/{postId} exists
    messages,        \* messages/{chatId}: the pushed messages, in key order
    chats,           \* chats/{chatId}: the thread summary
    userChats,       \* userChats/{uid}/{chatId}: the per-user mirror
    presence,        \* presence/{uid}: its status, and the write the server
                     \* holds for the client's disconnect (onDisconnect)
    clients,         \* each user's client: connected or not, signed in or not
    calls            \* the calls: operation, arguments, position, locals, result

\* the per-user records that the friend, like, comment and chat operations
\* leave alone
profileVars == <<users, usernames, userPosts, presence, clients>>
friendVars == <<friends, friendRequests>>
chatVars == <<messages, chats, userChats>>
\* everything but presence and the clients
dataVars == <<users, usernames, userPosts, friendVars, notifications, posts, chatVars>>

store == <<users, usernames, friends, friendRequests, notifications, posts,
           userPosts, messages, chats, userChats, presence, clients>>

vars == <<users, usernames, friends, friendRequests, notifications, posts,
          userPosts, messages, chats, userChats, presence, clients, calls>>

\* ------------------------------------------------------------------ profiles
NoProfile == [exists |-> FALSE, username |-> Null]
Profile(name) == [exists |-> TRUE, username |-> name]

\* ------------------------------------------------------------------ calls
Idle == [op |-> "none", pc |-> "idle", currentUserId |-> Null, arg |-> Null,
         arg2 |-> Null, commentId |-> 0, targetUid |-> Null, isLiked |-> FALSE,
         count |-> None, updates |-> {},
         authorId |-> Null, imageFile |-> FALSE, limit |-> 0, friendIds |-> {},
         feedPosts |-> <<>>, pendingRequestIds |-> {}, suggestions |-> <<>>,
         snapshot |-> {}, pending |-> {}, delivery |-> 0, allPosts |-> Null,
         result |-> Null]

InFlight == {c \in Calls : calls[c].pc \notin {"idle", "done"}}
NoneInFlight == InFlight = {}
Started == {c \in Calls : calls[c].pc # "idle"}
Done(c) == calls[c].pc = "done"
Succeeded(c) == Done(c) /\ calls[c].result = "true"
\* the call started last
IsLast(c) == c \in Started /\ \A d \in Calls : d > c => d \notin Started

\* Calls are started in the order of their numbers.
CanStart(c) ==
    /\ calls[c].pc = "idle"
    /\ Cardinality(InFlight) < MaxInFlight
    /\ \A d \in Calls : d < c => calls[d].pc # "idle"

Begin(c, op, uid, arg, pc0) ==
    calls' = [calls EXCEPT ![c] = [Idle EXCEPT !.op = op, !.pc = pc0,
                                             !.currentUserId = uid, !.arg = arg]]

Goto(c, pc1) == calls' = [calls EXCEPT ![c].pc = pc1]

\* return value, or the message of the Error thrown to the caller
Return(c, r) == calls' = [calls EXCEPT ![c].pc = "done", ![c].result = r]

\* ------------------------------------------------------------------ auth.js
\* getCurrentUserId(), lines 161-163, is null while no user is signed in.  The
\* commands that then throw 'User not authenticated', and those that return
\* (markMessagesAsRead line 625-627, markNotificationAsRead lines 142-144,
\* markAllNotificationsAsRead lines 162-164).
ThrowingCommands ==
    {"sendFriendRequest", "acceptFriendRequest", "rejectFriendRequest", "removeFriend",
     "sendMessage", "deleteMessage", "startChatWithFriend",
     "createPost", "togglePostLike", "addComment", "deletePost", "deleteComment"}
ReturningCommands ==
    {"markMessagesAsRead", "markNotificationAsRead", "markAllNotificationsAsRead"}

\* a command called while nobody is signed in: its first statements
CallSignedOut(c, op) ==
    /\ CanStart(c)
    /\ calls' = [calls EXCEPT ![c] = [Idle EXCEPT !.op = op, !.pc = "done",
                    !.result = IF op \in ThrowingCommands
                               THEN "User not authenticated" ELSE "undefined"]]
    /\ UNCHANGED store

\* ------------------------------------------------------------------ notifications.js
\* addNotification: push() a new key under notifications/{userId} and set it
addNotification(userId, type, from) ==
    notifications' = [notifications EXCEPT
                        ![userId] = Append(@, [type |-> type, from |-> from])]

\* ------------------------------------------------------------------ database.js
\* checkUsernameAvailability(username), lines 97-108: get usernames/{username}
checkUsernameAvailability(username) == usernames[username] = Null

\* setUsername(uid, username), lines 68-94
StartSetUsername(c, uid, username) ==
    /\ CanStart(c)
    /\ Begin(c, "setUsername", uid, username, "su_check")
    /\ UNCHANGED store

\* lines 71-75: await checkUsernameAvailability(username)
SuCheckAvailability(c) ==
    /\ calls[c].pc = "su_check"
    /\ IF checkUsernameAvailability(calls[c].arg)
       THEN Goto(c, "su_update")
       ELSE Return(c, "Username is already taken")
    /\ UNCHANGED store

\* lines 78-82: update users/{uid} with the username
SuUpdateProfile(c) ==
    /\ calls[c].pc = "su_update"
    /\ users' = [users EXCEPT ![calls[c].currentUserId] = Profile(calls[c].arg)]
    /\ Goto(c, "su_index")
    /\ UNCHANGED <<usernames, userPosts, friendVars, notifications, posts, chatVars,
                 presence, clients>>

\* lines 85-89: set usernames/{username} to the uid, return true
SuSetIndex(c) ==
    /\ calls[c].pc = "su_index"
    /\ usernames' = [usernames EXCEPT ![calls[c].arg] = calls[c].currentUserId]
    /\ Return(c, "true")
    /\ UNCHANGED <<users, userPosts, friendVars, notifications, posts, chatVars,
                 presence, clients>>

\* storeUserProfile(userData), lines 21-47, called by storeUserData of
\* auth.js, lines 96-113, on each sign-in
StartStoreUserProfile(c, uid) ==
    /\ CanStart(c)
    /\ Begin(c, "storeUserProfile", uid, Null, "sup_get")
    /\ UNCHANGED store

\* lines 26-27: get users/{uid}; existingData?.username || null
SupGetProfile(c) ==
    /\ calls[c].pc = "sup_get"
    /\ calls' = [calls EXCEPT ![c].pc = "sup_set",
                              ![c].arg = users[calls[c].currentUserId].username]
    /\ UNCHANGED store

\* lines 29-39: set users/{uid} to the profile built from that snapshot
SupSetProfile(c) ==
    /\ calls[c].pc = "sup_set"
    /\ users' = [users EXCEPT ![calls[c].currentUserId] = Profile(calls[c].arg)]
    /\ Return(c, "profileData")
    /\ UNCHANGED <<usernames, userPosts, friendVars, notifications, posts, chatVars,
                   presence, clients>>

\* initializeAuth of auth.js, lines 21-49: when a user signs in, the auth
\* observer sets currentUser and calls setUserPresence(user.uid, true),
\* database.js lines 130-161
StartSetUserPresence(c, uid) ==
    /\ CanStart(c)
    /\ clients[uid].connected /\ ~clients[uid].currentUser
    /\ Begin(c, "setUserPresence", uid, Null, "sp_online")
    /\ clients' = [clients EXCEPT ![uid].currentUser = TRUE]
    /\ UNCHANGED <<dataVars, presence>>

\* lines 135-139: set presence/{uid} to status online
SpSetOnline(c) ==
    /\ calls[c].pc = "sp_online"
    /\ clients[calls[c].currentUserId].connected
    /\ presence' = [presence EXCEPT ![calls[c].currentUserId].status = "online"]
    /\ Goto(c, "sp_disconnect")
    /\ UNCHANGED <<dataVars, clients>>

\* lines 141-146: onDisconnect(presenceRef).set(offline): the server now holds
\* the write it will apply when the client's connection is gone
SpOnDisconnect(c) ==
    /\ calls[c].pc = "sp_disconnect"
    /\ clients[calls[c].currentUserId].connected
    /\ presence' = [presence EXCEPT ![calls[c].currentUserId].onDisconnect = TRUE]
    /\ Return(c, "undefined")
    /\ UNCHANGED <<dataVars, clients>>

\* signOutUser() of auth.js, lines 80-93, called from the main screen, which
\* only a signed-in user sees (lines 26-33): currentUser is set on line 82
StartSignOutUser(c, uid) ==
    /\ CanStart(c)
    /\ clients[uid].connected /\ clients[uid].currentUser
    /\ Begin(c, "signOutUser", uid, Null, "so_presence")
    /\ UNCHANGED store

\* auth.js line 84, removeUserPresence(uid) of database.js lines 164-176: set
\* presence/{uid} to status offline.  A client's writes reach the server in
\* the order in which it made them, so the set of an earlier setUserPresence
\* call of this client comes first.
SoRemovePresence(c) ==
    /\ calls[c].pc = "so_presence"
    /\ clients[calls[c].currentUserId].connected
    /\ \A d \in Calls :
          (d < c /\ calls[d].currentUserId = calls[c].currentUserId) =>
              calls[d].pc # "sp_online"
    /\ presence' = [presence EXCEPT ![calls[c].currentUserId].status = "offline"]
    /\ Goto(c, "so_signout")
    /\ UNCHANGED <<dataVars, clients>>

\* auth.js line 87: signOut(auth); the auth observer sets currentUser to null
SoSignOut(c) ==
    /\ calls[c].pc = "so_signout"
    /\ clients[calls[c].currentUserId].connected
    /\ clients' = [clients EXCEPT ![calls[c].currentUserId].currentUser = FALSE]
    /\ Return(c, "undefined")
    /\ UNCHANGED <<dataVars, presence>>

\* The client's connection is lost (network gone, tab closed) and the client
\* does nothing more: its calls stay where they are.
ConnectionDrops(uid) ==
    /\ clients[uid].connected
    /\ clients' = [clients EXCEPT ![uid].connected = FALSE]
    /\ UNCHANGED <<dataVars, presence, calls>>

\* The server notices the lost connection and applies the write that
\* onDisconnect registered, lines 142-146, if there is one.
ServerOnDisconnect(uid) ==
    /\ ~clients[uid].connected
    /\ presence[uid].onDisconnect
    /\ presence' = [presence EXCEPT ![uid] = [status |-> "offline", onDisconnect |-> FALSE]]
    /\ UNCHANGED <<dataVars, clients, calls>>

\* ------------------------------------------------------------------ friends.js
\* sendFriendRequest(targetUsername), lines 20-106
StartSendFriendRequest(c, uid, targetUsername) ==
    /\ CanStart(c)
    /\ Begin(c, "sendFriendRequest", uid, targetUsername, "sfr_resolve")
    /\ UNCHANGED store

\* The uid whose profile carries the username, as the scan of users finds it
\* (for..in visits the keys in their order; the first match wins).
FirstWithUsername(name) ==
    LET matching == {u \in Users : users[u].exists /\ users[u].username = name}
    IN  IF matching = {} THEN Null
        ELSE CHOOSE u \in matching : \A v \in matching : Rank(u) <= Rank(v)

\* getUserByUsername(name), lines 111-127 of database.js: the profile of the
\* uid that usernames/{name} holds, null when either is missing
getUserByUsername(name) ==
    IF usernames[name] = Null THEN NoProfile ELSE users[usernames[name]]

\* Lines 27-59: getUserByUsername, the scan of users for the username, the
\* self check.  These reads are of users/ and usernames/, which no friend
\* operation writes, so they are taken in one step.
SfrResolveTarget(c) ==
    /\ calls[c].pc = "sfr_resolve"
    /\ LET targetUid == FirstWithUsername(calls[c].arg)
       IN  IF ~getUserByUsername(calls[c].arg).exists
           THEN Return(c, "User not found")
           ELSE IF targetUid = Null
           THEN Return(c, "User not found")
           ELSE IF targetUid = calls[c].currentUserId
           THEN Return(c, "Cannot send friend request to yourself")
           ELSE calls' = [calls EXCEPT ![c].pc = "sfr_friends", ![c].targetUid = targetUid]
    /\ UNCHANGED store

\* get friends/{currentUserId}/{targetUid}
SfrCheckFriends(c) ==
    /\ calls[c].pc = "sfr_friends"
    /\ IF <<calls[c].currentUserId, calls[c].targetUid>> \in friends
       THEN Return(c, "Already friends with this user")
       ELSE Goto(c, "sfr_request")
    /\ UNCHANGED store

\* get friendRequests/{targetUid}/{currentUserId}
SfrCheckRequest(c) ==
    /\ calls[c].pc = "sfr_request"
    /\ IF <<calls[c].targetUid, calls[c].currentUserId>> \in friendRequests
       THEN Return(c, "Friend request already sent")
       ELSE Goto(c, "sfr_reverse")
    /\ UNCHANGED store

\* SfrCheckReverse without the throw of line 79
SfrCheckReverse_NoThrow(c) ==
    /\ calls[c].pc = "sfr_reverse"
    /\ Goto(c, "sfr_set")
    /\ UNCHANGED store

\* get friendRequests/{currentUserId}/{targetUid}
SfrCheckReverse(c) ==
    /\ calls[c].pc = "sfr_reverse"
    /\ IF <<calls[c].currentUserId, calls[c].targetUid>> \in friendRequests
       THEN Return(c, "This user has already sent you a friend request")
       ELSE Goto(c, "sfr_set")
    /\ UNCHANGED store

\* set friendRequests/{targetUid}/{currentUserId}
SfrSetRequest(c) ==
    /\ calls[c].pc = "sfr_set"
    /\ friendRequests' = friendRequests \cup {<<calls[c].targetUid, calls[c].currentUserId>>}
    /\ Goto(c, "sfr_notify")
    /\ UNCHANGED <<profileVars, friends, notifications, posts, chatVars>>

\* Lines 93-101: getUserProfile(currentUserId), whose .displayName throws on a
\* missing profile, then addNotification(targetUid, friend_request); return true
SfrNotify(c) ==
    /\ calls[c].pc = "sfr_notify"
    /\ IF users[calls[c].currentUserId].exists
       THEN /\ addNotification(calls[c].targetUid, "friend_request", calls[c].currentUserId)
            /\ Return(c, "true")
       ELSE /\ Return(c, "TypeError")
            /\ UNCHANGED notifications
    /\ UNCHANGED <<profileVars, friendVars, posts, chatVars>>

\* acceptFriendRequest(fromUserId), lines 109-147
StartAcceptFriendRequest(c, uid, fromUserId) ==
    /\ CanStart(c)
    /\ Begin(c, "acceptFriendRequest", uid, fromUserId, "afr_remove")
    /\ UNCHANGED store

\* AfrRemoveRequest without the remove of line 118
AfrRemoveRequest_NoRemove(c) ==
    /\ calls[c].pc = "afr_remove"
    /\ Goto(c, "afr_set1")
    /\ UNCHANGED store

\* remove friendRequests/{currentUserId}/{fromUserId}
AfrRemoveRequest(c) ==
    /\ calls[c].pc = "afr_remove"
    /\ friendRequests' = friendRequests \ {<<calls[c].currentUserId, calls[c].arg>>}
    /\ Goto(c, "afr_set1")
    /\ UNCHANGED <<profileVars, friends, notifications, posts, chatVars>>

\* set friends/{currentUserId}/{fromUserId}
AfrSetOwnEdge(c) ==
    /\ calls[c].pc = "afr_set1"
    /\ friends' = friends \cup {<<calls[c].currentUserId, calls[c].arg>>}
    /\ Goto(c, "afr_set2")
    /\ UNCHANGED <<profileVars, friendRequests, notifications, posts, chatVars>>

\* AfrSetMirrorEdge writing the path of line 123 a second time
AfrSetMirrorEdge_OwnPath(c) ==
    /\ calls[c].pc = "afr_set2"
    /\ friends' = friends \cup {<<calls[c].currentUserId, calls[c].arg>>}
    /\ Goto(c, "afr_notify")
    /\ UNCHANGED <<profileVars, friendRequests, notifications, posts, chatVars>>

\* set friends/{fromUserId}/{currentUserId}
AfrSetMirrorEdge(c) ==
    /\ calls[c].pc = "afr_set2"
    /\ friends' = friends \cup {<<calls[c].arg, calls[c].currentUserId>>}
    /\ Goto(c, "afr_notify")
    /\ UNCHANGED <<profileVars, friendRequests, notifications, posts, chatVars>>

\* Lines 133-142: getUserProfile(currentUserId), whose .displayName throws on a
\* missing profile, then addNotification(fromUserId, friend_request_accepted)
AfrNotify(c) ==
    /\ calls[c].pc = "afr_notify"
    /\ IF users[calls[c].currentUserId].exists
       THEN /\ addNotification(calls[c].arg, "friend_request_accepted", calls[c].currentUserId)
            /\ Return(c, "true")
       ELSE /\ Return(c, "TypeError")
            /\ UNCHANGED notifications
    /\ UNCHANGED <<profileVars, friendVars, posts, chatVars>>

\* RejectFriendRequest throwing when there is no request to remove
RejectFriendRequest_ThrowsIfAbsent(c, uid, fromUserId) ==
    /\ CanStart(c)
    /\ friendRequests' = friendRequests \ {<<uid, fromUserId>>}
    /\ calls' = [calls EXCEPT ![c] = [Idle EXCEPT !.op = "rejectFriendRequest",
                      !.pc = "done", !.currentUserId = uid, !.arg = fromUserId,
                      !.result = IF <<uid, fromUserId>> \in friendRequests
                                 THEN "true" ELSE "Request not found"]]
    /\ UNCHANGED <<profileVars, friends, notifications, posts, chatVars>>

\* rejectFriendRequest(fromUserId), lines 150-167: one remove
RejectFriendRequest(c, uid, fromUserId) ==
    /\ CanStart(c)
    /\ friendRequests' = friendRequests \ {<<uid, fromUserId>>}
    /\ calls' = [calls EXCEPT ![c] = [Idle EXCEPT !.op = "rejectFriendRequest",
                      !.pc = "done", !.currentUserId = uid, !.arg = fromUserId,
                      !.result = "true"]]
    /\ UNCHANGED <<profileVars, friends, notifications, posts, chatVars>>

\* removeFriend(friendUserId), lines 170-187
StartRemoveFriend(c, uid, friendUserId) ==
    /\ CanStart(c)
    /\ Begin(c, "removeFriend", uid, friendUserId, "rf_remove1")
    /\ UNCHANGED store

\* remove friends/{currentUserId}/{friendUserId}
RfRemoveOwnEdge(c) ==
    /\ calls[c].pc = "rf_remove1"
    /\ friends' = friends \ {<<calls[c].currentUserId, calls[c].arg>>}
    /\ Goto(c, "rf_remove2")
    /\ UNCHANGED <<profileVars, friendRequests, notifications, posts, chatVars>>

\* remove friends/{friendUserId}/{currentUserId}, return true
RfRemoveMirrorEdge(c) ==
    /\ calls[c].pc = "rf_remove2"
    /\ friends' = friends \ {<<calls[c].arg, calls[c].currentUserId>>}
    /\ Return(c, "true")
    /\ UNCHANGED <<profileVars, friendRequests, notifications, posts, chatVars>>

\* areFriends(userId1, userId2), lines 332-341: get friends/{userId1}/{userId2}
areFriends(userId1, userId2) == <<userId1, userId2>> \in friends

\* the call areFriends(userId1, userId2): one get, the result is whether the
\* node exists; nothing is written
AreFriends(c, userId1, userId2) ==
    /\ CanStart(c)
    /\ calls' = [calls EXCEPT ![c] =
                      [Idle EXCEPT !.op = "areFriends", !.pc = "done",
                                   !.currentUserId = userId1, !.arg = userId2,
                                   !.result = IF areFriends(userId1, userId2)
                                              THEN "true" ELSE "false"]]
    /\ UNCHANGED store

\* getFriendsList() for the signed-in user, lines 226-259: the ids under
\* friends/{uid} whose profile exists
getFriendsList(uid) == {f \in Users : <<uid, f>> \in friends /\ users[f].exists}

\* the call getFriendsList(), lines 226-259
StartGetFriendsList(c, uid) ==
    /\ CanStart(c)
    /\ Begin(c, "getFriendsList", uid, Null, "gfl_get")
    /\ UNCHANGED store

\* get friends/{currentUserId} and the profiles of its keys, return the list;
\* nothing is written
GflGetFriends(c) ==
    /\ calls[c].pc = "gfl_get"
    /\ calls' = [calls EXCEPT ![c].pc = "done", ![c].result = "list",
                              ![c].friendIds = getFriendsList(calls[c].currentUserId)]
    /\ UNCHANGED store

\* getFriendRequests() of the signed-in user, lines 190-223: the senders under
\* friendRequests/{uid} whose profile exists
getFriendRequests(uid) == {f \in Users : <<uid, f>> \in friendRequests /\ users[f].exists}

\* getAllUsers(), lines 443-466: every stored profile, in key order
RECURSIVE InKeyOrder(_)
InKeyOrder(uids) ==
    IF uids = {} THEN <<>>
    ELSE LET first == CHOOSE u \in uids : \A v \in uids : Rank(u) <= Rank(v)
         IN  <<first>> \o InKeyOrder(uids \ {first})

getAllUsers == InKeyOrder({u \in Users : users[u].exists})

\* listenToFriendsList(callback), lines 296-329.  The subscription of a user
\* is made when the application starts; onValue then runs the handler of lines
\* 304-326 with the value of friends/{uid}: once at first, and again whenever
\* the value differs from the one handed to the handler before.
FriendsSnapshot(uid) == {f \in Users : <<uid, f>> \in friends}

\* the handler invocations of the subscription of uid
Handlers(uid) ==
    {c \in Calls : calls[c].op = "friendsListHandler" /\ calls[c].currentUserId = uid}

\* the unsubscribe function returned on line 328 has been called: off()
Unsubscribed(uid) ==
    \E c \in Calls : calls[c].op = "unsubscribe" /\ calls[c].currentUserId = uid

\* the value of friends/{uid} has not been handed to the handler yet
EventPending(uid) ==
    IF Handlers(uid) = {} THEN TRUE
    ELSE LET last == CHOOSE c \in Handlers(uid) : \A d \in Handlers(uid) : d <= c
         IN  calls[last].snapshot # FriendsSnapshot(uid)

\* the number of the next invocation of the callback
NextDelivery == 1 + Cardinality({d \in Calls : calls[d].delivery > 0})

\* lines 304-309 and 323-325: onValue hands the snapshot to the handler; with
\* no friends the handler calls callback([]) at once, otherwise it starts the
\* profile lookups of the snapshot's keys
FlOnValue(c, uid) ==
    /\ CanStart(c)
    /\ ~Unsubscribed(uid)
    /\ EventPending(uid)
    /\ LET snap == FriendsSnapshot(uid)
       IN  calls' = [calls EXCEPT ![c] =
               IF snap = {}
               THEN [Idle EXCEPT !.op = "friendsListHandler", !.pc = "done",
                                 !.currentUserId = uid, !.delivery = NextDelivery,
                                 !.result = "callback"]
               ELSE [Idle EXCEPT !.op = "friendsListHandler", !.pc = "fl_profile",
                                 !.currentUserId = uid, !.snapshot = snap,
                                 !.pending = snap]]
    /\ UNCHANGED store

\* lines 311-322: await getUserProfile(friendUserId) for the next key; after
\* the last key the handler calls callback(friendsList).  Nothing between the
\* await and the callback asks whether the subscription is still active.
FlGetUserProfile(c) ==
    /\ calls[c].pc = "fl_profile"
    /\ LET friendUserId == InKeyOrder(calls[c].pending)[1]
           rest == calls[c].pending \ {friendUserId}
       IN  calls' = [calls EXCEPT
               ![c].friendIds = IF users[friendUserId].exists
                                THEN @ \cup {friendUserId} ELSE @,
               ![c].pending = rest,
               ![c].pc = IF rest = {} THEN "done" ELSE "fl_profile",
               ![c].delivery = IF rest = {} THEN NextDelivery ELSE 0,
               ![c].result = IF rest = {} THEN "callback" ELSE Null]
    /\ UNCHANGED store

\* line 328: the caller calls the function that listenToFriendsList returned
Unsubscribe(c, uid) ==
    /\ CanStart(c)
    /\ ~Unsubscribed(uid)
    /\ calls' = [calls EXCEPT ![c] =
                      [Idle EXCEPT !.op = "unsubscribe", !.pc = "done",
                                   !.currentUserId = uid, !.result = "undefined"]]
    /\ UNCHANGED store

\* getFriendSuggestions(limit), lines 411-440
SuggestionLimits == {1, 2}

StartGetFriendSuggestions(c, uid, limit) ==
    /\ CanStart(c)
    /\ calls' = [calls EXCEPT ![c] = [Idle EXCEPT !.op = "getFriendSuggestions",
                    !.pc = "gfs_friends", !.currentUserId = uid, !.limit = limit]]
    /\ UNCHANGED store

\* line 420: getFriendsList(), the get of friends/{uid}
GfsGetFriends(c) ==
    /\ calls[c].pc = "gfs_friends"
    /\ calls' = [calls EXCEPT ![c].pc = "gfs_requests",
                              ![c].friendIds = {f \in Users : <<calls[c].currentUserId, f>> \in friends}]
    /\ UNCHANGED store

\* line 421: getFriendRequests(), the get of friendRequests/{uid}
GfsGetRequests(c) ==
    /\ calls[c].pc = "gfs_requests"
    /\ calls' = [calls EXCEPT ![c].pc = "gfs_filter",
                              ![c].pendingRequestIds = getFriendRequests(calls[c].currentUserId)]
    /\ UNCHANGED store

RECURSIVE SelectSeq2(_, _)
SelectSeq2(seq, keep) ==
    IF seq = <<>> THEN <<>>
    ELSE IF Head(seq) \in keep THEN <<Head(seq)>> \o SelectSeq2(Tail(seq), keep)
    ELSE SelectSeq2(Tail(seq), keep)

\* lines 419-434: the profiles (users/ is read, and the profiles of the
\* friends and of the senders looked up), the filter and the slice
GfsFilter(c) ==
    /\ calls[c].pc = "gfs_filter"
    /\ LET friendIds == {f \in calls[c].friendIds : users[f].exists}
           keep == {u \in Users : /\ u # calls[c].currentUserId
                                  /\ u \notin friendIds
                                  /\ u \notin calls[c].pendingRequestIds}
       IN  calls' = [calls EXCEPT ![c].pc = "done", ![c].result = "list",
                ![c].suggestions =
                    SubSeq(SelectSeq2(getAllUsers, keep), 1,
                           IF Len(SelectSeq2(getAllUsers, keep)) < calls[c].limit
                           THEN Len(SelectSeq2(getAllUsers, keep)) ELSE calls[c].limit)]
    /\ UNCHANGED store

\* ------------------------------------------------------------------ posts.js
\* posts/{postId} holds only the fields that were written: nothing is stored
\* for an empty likes or comments object, and the node exists iff a field does.
NoPost == [authorId |-> Null, likes |-> {}, likesCount |-> None,
           comments |-> <<>>, commentsCount |-> None, createdAt |-> None]

\* createPost, lines 361-378: the post as set; createdAt is Date.now()
NewPost(author, now) == [NoPost EXCEPT !.authorId = author, !.likesCount = Some(0),
                                       !.commentsCount = Some(0),
                                       !.createdAt = Some(now)]

\* snapshot.exists() of posts/{postId}
PostExists(postId) == posts[postId] # NoPost

\* togglePostLike(postId), lines 492-542
StartTogglePostLike(c, uid, postId) ==
    /\ CanStart(c)
    /\ Begin(c, "togglePostLike", uid, postId, "tpl_get")
    /\ UNCHANGED store

\* TplGetPost without the throw of lines 502-504
TplGetPost_NoThrow(c) ==
    /\ calls[c].pc = "tpl_get"
    /\ LET post == posts[calls[c].arg]
       IN  calls' = [calls EXCEPT
               ![c].pc = "tpl_update",
               ![c].isLiked = calls[c].currentUserId \in post.likes,
               ![c].count = post.likesCount,
               ![c].authorId = post.authorId]
    /\ UNCHANGED store

\* lines 499-508: get posts/{postId}; isLiked and likesCount of the snapshot
TplGetPost(c) ==
    /\ calls[c].pc = "tpl_get"
    /\ IF ~PostExists(calls[c].arg)
       THEN Return(c, "Post not found")
       ELSE LET post == posts[calls[c].arg]
            IN  calls' = [calls EXCEPT
                    ![c].pc = "tpl_update",
                    ![c].isLiked = calls[c].currentUserId \in post.likes,
                    ![c].count = post.likesCount,
                    ![c].authorId = post.authorId]
    /\ UNCHANGED store

\* TplUpdate without the test of line 524: the author is notified of the
\* author's own like too
TplUpdate_NotifySelf(c) ==
    /\ calls[c].pc = "tpl_update"
    /\ LET uid == calls[c].currentUserId
           postId == calls[c].arg
       IN  IF calls[c].isLiked
           THEN /\ posts' = [posts EXCEPT
                        ![postId].likes = @ \ {uid},
                        ![postId].likesCount = Some(OrZero(calls[c].count) - 1)]
                /\ Return(c, "false")
           ELSE /\ posts' = [posts EXCEPT
                        ![postId].likes = @ \cup {uid},
                        ![postId].likesCount = Some(OrZero(calls[c].count) + 1)]
                /\ Goto(c, "tpl_notify")
    /\ UNCHANGED <<profileVars, friendVars, notifications, chatVars>>

\* lines 510-521: one update of likes/{uid} and likesCount, from the snapshot
TplUpdate(c) ==
    /\ calls[c].pc = "tpl_update"
    /\ LET uid == calls[c].currentUserId
           postId == calls[c].arg
       IN  IF calls[c].isLiked
           THEN /\ posts' = [posts EXCEPT
                        ![postId].likes = @ \ {uid},
                        ![postId].likesCount = Some(OrZero(calls[c].count) - 1)]
                /\ Return(c, "false")
           ELSE /\ posts' = [posts EXCEPT
                        ![postId].likes = @ \cup {uid},
                        ![postId].likesCount = Some(OrZero(calls[c].count) + 1)]
                /\ IF calls[c].authorId # uid
                   THEN Goto(c, "tpl_notify")
                   ELSE Return(c, "true")
    /\ UNCHANGED <<profileVars, friendVars, notifications, chatVars>>

\* lines 524-533: getUserProfile(currentUserId), whose .displayName throws on a
\* missing profile, then addNotification(post.authorId, post_like)
TplNotify(c) ==
    /\ calls[c].pc = "tpl_notify"
    /\ IF users[calls[c].currentUserId].exists
       THEN /\ addNotification(IF calls[c].authorId = Null THEN Undefined
                                ELSE calls[c].authorId,
                               "post_like", calls[c].currentUserId)
            /\ Return(c, "true")
       ELSE /\ Return(c, "TypeError")
            /\ UNCHANGED notifications
    /\ UNCHANGED <<profileVars, friendVars, posts, chatVars>>

\* addComment(postId, commentText), lines 545-600
\* lines 552-554: the blank check
StartAddComment(c, uid, postId, commentText) ==
    /\ CanStart(c)
    /\ IF Trim(commentText) = ""
       THEN calls' = [calls EXCEPT ![c] = [Idle EXCEPT !.op = "addComment",
                        !.pc = "done", !.currentUserId = uid, !.arg = postId,
                        !.arg2 = commentText, !.result = "Comment cannot be empty"]]
       ELSE calls' = [calls EXCEPT ![c] = [Idle EXCEPT !.op = "addComment",
                        !.pc = "ac_set", !.currentUserId = uid, !.arg = postId,
                        !.arg2 = commentText]]
    /\ UNCHANGED store

\* lines 557-572: getUserProfile(currentUserId), whose .displayName throws on a
\* missing profile, then push under posts/{postId}/comments and set the
\* comment; the pushed key is unique to the call
AcSetComment(c) ==
    /\ calls[c].pc = "ac_set"
    /\ IF users[calls[c].currentUserId].exists
       THEN /\ posts' = [posts EXCEPT ![calls[c].arg].comments =
                            Append(@, [id |-> c, authorId |-> calls[c].currentUserId])]
            /\ Goto(c, "ac_get")
       ELSE /\ Return(c, "TypeError")
            /\ UNCHANGED posts
    /\ UNCHANGED <<profileVars, friendVars, notifications, chatVars>>

\* lines 575-577: get posts/{postId}
AcGetPost(c) ==
    /\ calls[c].pc = "ac_get"
    /\ IF ~PostExists(calls[c].arg)
       THEN Return(c, "TypeError")
       ELSE calls' = [calls EXCEPT ![c].pc = "ac_update",
                                   ![c].count = posts[calls[c].arg].commentsCount,
                                   ![c].authorId = posts[calls[c].arg].authorId]
    /\ UNCHANGED store

\* lines 579-581: update commentsCount from the snapshot
AcUpdateCount(c) ==
    /\ calls[c].pc = "ac_update"
    /\ posts' = [posts EXCEPT ![calls[c].arg].commentsCount =
                    Some(OrZero(calls[c].count) + 1)]
    /\ IF calls[c].authorId # calls[c].currentUserId
       THEN Goto(c, "ac_notify")
       ELSE Return(c, "key")
    /\ UNCHANGED <<profileVars, friendVars, notifications, chatVars>>

\* lines 584-595: addNotification(post.authorId, post_comment), return the key
AcNotify(c) ==
    /\ calls[c].pc = "ac_notify"
    /\ addNotification(IF calls[c].authorId = Null THEN Undefined ELSE calls[c].authorId,
                       "post_comment", calls[c].currentUserId)
    /\ Return(c, "key")
    /\ UNCHANGED <<profileVars, friendVars, posts, chatVars>>

\* the comment with that key under posts/{postId}/comments, as a set
CommentAt(postId, commentId) ==
    {posts[postId].comments[i] : i \in {j \in DOMAIN posts[postId].comments :
                                          posts[postId].comments[j].id = commentId}}

\* a sequence without the entries of the given key
RECURSIVE WithoutId(_, _)
WithoutId(seq, id) ==
    IF seq = <<>> THEN <<>>
    ELSE IF Head(seq).id = id THEN WithoutId(Tail(seq), id)
    ELSE <<Head(seq)>> \o WithoutId(Tail(seq), id)

\* deleteComment(postId, commentId), lines 705-743
StartDeleteComment(c, uid, postId, commentId) ==
    /\ CanStart(c)
    /\ calls' = [calls EXCEPT ![c] = [Idle EXCEPT !.op = "deleteComment",
                    !.pc = "dc_get", !.currentUserId = uid, !.arg = postId,
                    !.commentId = commentId]]
    /\ UNCHANGED store

\* lines 713-723: get the comment; it must exist and be the caller's
DcGetComment(c) ==
    /\ calls[c].pc = "dc_get"
    /\ LET found == CommentAt(calls[c].arg, calls[c].commentId)
       IN  IF found = {}
           THEN Return(c, "Comment not found")
           ELSE IF \E comment \in found : comment.authorId # calls[c].currentUserId
           THEN Return(c, "Can only delete your own comments")
           ELSE Goto(c, "dc_remove")
    /\ UNCHANGED store

\* lines 725-726: remove the comment
DcRemoveComment(c) ==
    /\ calls[c].pc = "dc_remove"
    /\ posts' = [posts EXCEPT ![calls[c].arg].comments = WithoutId(@, calls[c].commentId)]
    /\ Goto(c, "dc_getpost")
    /\ UNCHANGED <<profileVars, friendVars, notifications, chatVars>>

\* lines 729-731: get posts/{postId}; post.commentsCount throws on a null post
DcGetPost(c) ==
    /\ calls[c].pc = "dc_getpost"
    /\ IF ~PostExists(calls[c].arg)
       THEN Return(c, "TypeError")
       ELSE calls' = [calls EXCEPT ![c].pc = "dc_update",
                                   ![c].count = posts[calls[c].arg].commentsCount]
    /\ UNCHANGED store

Max(a, b) == IF a >= b THEN a ELSE b

\* lines 733-738: update commentsCount from the snapshot, not below 0
DcUpdateCount(c) ==
    /\ calls[c].pc = "dc_update"
    /\ posts' = [posts EXCEPT ![calls[c].arg].commentsCount =
                    Some(Max(OrZero(calls[c].count) - 1, 0))]
    /\ Return(c, "true")
    /\ UNCHANGED <<profileVars, friendVars, notifications, chatVars>>

\* createPost(content, imageFile), lines 339-390
PostContents == {" ", "hello"}
\* Date.now() of the author's client
ClientTimes == {1, 2}
\* push keys sort in the order of their creation
PostRank(p) == IF p = "p1" THEN 1 ELSE 2

\* The key that push(postsRef) gives is new: nothing is stored under it and no
\* call has been made with it, but a createPost that failed.  The smallest such
\* key is taken.
FreePostIds ==
    {p \in PostIds : /\ ~PostExists(p)
                     /\ \A u \in Users : <<u, p>> \notin userPosts
                     /\ \A c \in Calls :
                           calls[c].arg = p =>
                               /\ calls[c].op = "createPost" /\ Done(c)
                               /\ calls[c].result # "key"}
NewPostId == CHOOSE p \in FreePostIds : \A q \in FreePostIds : PostRank(p) <= PostRank(q)

\* lines 346-355: the check for content or an image
StartCreatePost(c, uid, content, imageFile) ==
    /\ CanStart(c)
    /\ FreePostIds # {}
    /\ calls' = [calls EXCEPT ![c] = [Idle EXCEPT
            !.op = "createPost", !.currentUserId = uid,
            !.arg = IF Trim(content) = "" /\ ~imageFile THEN Null ELSE NewPostId,
            !.arg2 = content, !.imageFile = imageFile,
            !.pc = IF Trim(content) = "" /\ ~imageFile THEN "done"
                   ELSE IF imageFile THEN "cp_upload" ELSE "cp_set",
            !.result = IF Trim(content) = "" /\ ~imageFile
                       THEN "Post must have content or an image" ELSE Null]]
    /\ UNCHANGED store

\* line 354: await uploadPostImage(imageFile) of storage.js, which gives the
\* image data or throws
CpUploadImage(c) ==
    /\ calls[c].pc = "cp_upload"
    /\ Goto(c, "cp_set") \/ Return(c, "Upload failed")
    /\ UNCHANGED store

\* CpSetPost storing the post without likesCount and commentsCount
CpSetPost_NoCounts(c) ==
    /\ calls[c].pc = "cp_set"
    /\ \E now \in ClientTimes :
          posts' = [posts EXCEPT ![calls[c].arg] =
                       [NoPost EXCEPT !.authorId = calls[c].currentUserId,
                                      !.createdAt = Some(now)]]
    /\ Goto(c, "cp_index")
    /\ UNCHANGED <<profileVars, friendVars, notifications, chatVars>>

\* lines 358-378: getUserProfile(currentUserId), whose .displayName throws on a
\* missing profile, then push under posts and set the post
CpSetPost(c) ==
    /\ calls[c].pc = "cp_set"
    /\ IF users[calls[c].currentUserId].exists
       THEN /\ \E now \in ClientTimes :
                  posts' = [posts EXCEPT ![calls[c].arg] = NewPost(calls[c].currentUserId, now)]
            /\ Goto(c, "cp_index")
       ELSE /\ Return(c, "TypeError")
            /\ UNCHANGED posts
    /\ UNCHANGED <<profileVars, friendVars, notifications, chatVars>>

\* lines 380-385: set userPosts/{currentUserId}/{key}, return the key
CpSetIndex(c) ==
    /\ calls[c].pc = "cp_index"
    /\ userPosts' = userPosts \cup {<<calls[c].currentUserId, calls[c].arg>>}
    /\ Return(c, "key")
    /\ UNCHANGED <<users, usernames, friendVars, notifications, posts, chatVars,
                 presence, clients>>

\* deletePost(postId), lines 669-702
StartDeletePost(c, uid, postId) ==
    /\ CanStart(c)
    /\ Begin(c, "deletePost", uid, postId, "dp_get")
    /\ UNCHANGED store

\* DpGetPost without the author check of lines 685-687
DpGetPost_AnyUser(c) ==
    /\ calls[c].pc = "dp_get"
    /\ IF ~PostExists(calls[c].arg)
       THEN Return(c, "Post not found")
       ELSE Goto(c, "dp_remove")
    /\ UNCHANGED store

\* lines 677-687: get posts/{postId}; it must exist and be the caller's
DpGetPost(c) ==
    /\ calls[c].pc = "dp_get"
    /\ IF ~PostExists(calls[c].arg)
       THEN Return(c, "Post not found")
       ELSE IF posts[calls[c].arg].authorId # calls[c].currentUserId
       THEN Return(c, "Can only delete your own posts")
       ELSE Goto(c, "dp_remove")
    /\ UNCHANGED store

\* lines 689-690: remove posts/{postId}
DpRemovePost(c) ==
    /\ calls[c].pc = "dp_remove"
    /\ posts' = [posts EXCEPT ![calls[c].arg] = NoPost]
    /\ Goto(c, "dp_index")
    /\ UNCHANGED <<profileVars, friendVars, notifications, chatVars>>

\* lines 692-697: remove userPosts/{currentUserId}/{postId}, return true
DpRemoveIndex(c) ==
    /\ calls[c].pc = "dp_index"
    /\ userPosts' = userPosts \ {<<calls[c].currentUserId, calls[c].arg>>}
    /\ Return(c, "true")
    /\ UNCHANGED <<users, usernames, friendVars, notifications, posts, chatVars,
                 presence, clients>>

\* getFeedPosts(limit), lines 393-442
FeedLimits == {1, 2}

StartGetFeedPosts(c, uid, limit) ==
    /\ CanStart(c)
    /\ calls' = [calls EXCEPT ![c] = [Idle EXCEPT !.op = "getFeedPosts",
                    !.pc = "gfp_friends", !.currentUserId = uid, !.limit = limit]]
    /\ UNCHANGED store

\* lines 400-405: await getFriendsList(); the ids of the friends
GfpGetFriends(c) ==
    /\ calls[c].pc = "gfp_friends"
    /\ calls' = [calls EXCEPT ![c].pc = "gfp_posts",
                              ![c].friendIds = getFriendsList(calls[c].currentUserId)]
    /\ UNCHANGED store

\* a before b after the sort of lines 428-432: the greater createdAt first; the
\* sort is stable, so equal ones stay in key order
FeedBefore(a, b) ==
    \/ OrZero(posts[a].createdAt) > OrZero(posts[b].createdAt)
    \/ OrZero(posts[a].createdAt) = OrZero(posts[b].createdAt) /\ PostRank(a) < PostRank(b)

RECURSIVE SortFeed(_)
SortFeed(ids) ==
    IF ids = {} THEN <<>>
    ELSE LET first == CHOOSE a \in ids : \A b \in ids \ {a} : FeedBefore(a, b)
         IN  <<first>> \o SortFeed(ids \ {first})

\* feedPosts.slice(0, limit)
Slice(seq, limit) == SubSeq(seq, 1, IF Len(seq) < limit THEN Len(seq) ELSE limit)

\* GfpGetPosts keeping only the caller's own posts
GfpGetPosts_OwnOnly(c) ==
    /\ calls[c].pc = "gfp_posts"
    /\ calls' = [calls EXCEPT ![c].pc = "done", ![c].result = "list",
            ![c].feedPosts = Slice(SortFeed({p \in PostIds :
                    PostExists(p) /\ posts[p].authorId = calls[c].currentUserId}),
                calls[c].limit)]
    /\ UNCHANGED store

\* lines 407-437: get posts; those whose authorId is the caller or a friend,
\* sorted, cut to the limit
GfpGetPosts(c) ==
    /\ calls[c].pc = "gfp_posts"
    /\ LET userIds == {calls[c].currentUserId} \cup calls[c].friendIds
       IN  calls' = [calls EXCEPT ![c].pc = "done", ![c].result = "list",
                ![c].feedPosts = Slice(SortFeed({p \in PostIds :
                        PostExists(p) /\ posts[p].authorId \in userIds}),
                    calls[c].limit)]
    /\ UNCHANGED store

\* listenToFeedPosts(callback, limit), lines 445-489.  The subscription is
\* made when the application starts; onValue runs the handler of lines 454-486
\* with the value of posts: once at first, and again whenever the value differs
\* from the one handed to the handler before.
FeedEventPending(uid) ==
    LET handlers == {c \in Calls : calls[c].op = "feedPostsHandler"
                                    /\ calls[c].currentUserId = uid}
    IN  IF handlers = {} THEN TRUE
        ELSE LET last == CHOOSE c \in handlers : \A d \in handlers : d <= c
             IN  calls[last].allPosts # posts

\* lines 454-455 and 483-485: with no post the handler calls callback([]) at
\* once, otherwise it keeps the snapshot and awaits getFriendsList()
LfpOnValue(c, uid, limit) ==
    /\ CanStart(c)
    /\ FeedEventPending(uid)
    /\ calls' = [calls EXCEPT ![c] =
            IF \A p \in PostIds : ~PostExists(p)
            THEN [Idle EXCEPT !.op = "feedPostsHandler", !.pc = "done",
                              !.currentUserId = uid, !.limit = limit,
                              !.allPosts = posts, !.delivery = NextDelivery,
                              !.result = "callback"]
            ELSE [Idle EXCEPT !.op = "feedPostsHandler", !.pc = "lfp_friends",
                              !.currentUserId = uid, !.limit = limit,
                              !.allPosts = posts]]
    /\ UNCHANGED store

\* LfpGetFriends with the friends the subscriber had when it subscribed (every
\* other user) in place of the friends read on line 457
LfpGetFriends_AtRegistration(c) ==
    /\ calls[c].pc = "lfp_friends"
    /\ LET allPosts == calls[c].allPosts
           before(a, b) ==
               \/ OrZero(allPosts[a].createdAt) > OrZero(allPosts[b].createdAt)
               \/ /\ OrZero(allPosts[a].createdAt) = OrZero(allPosts[b].createdAt)
                  /\ PostRank(a) < PostRank(b)
           sorted[ids \in SUBSET PostIds] ==
               IF ids = {} THEN <<>>
               ELSE LET first == CHOOSE a \in ids : \A b \in ids \ {a} : before(a, b)
                    IN  <<first>> \o sorted[ids \ {first}]
       IN  calls' = [calls EXCEPT
               ![c].pc = "done", ![c].result = "callback",
               ![c].friendIds = Users \ {calls[c].currentUserId},
               ![c].delivery = NextDelivery,
               ![c].feedPosts = Slice(sorted[{p \in PostIds :
                       /\ allPosts[p] # NoPost
                       /\ allPosts[p].authorId \in Users}],
                   calls[c].limit)]
    /\ UNCHANGED store

\* lines 457-482: await getFriendsList(); the posts of the snapshot whose
\* authorId is the subscriber or one of those friends, sorted by createdAt
\* (newest first, equal ones in key order), cut to the limit, to the callback
LfpGetFriends(c) ==
    /\ calls[c].pc = "lfp_friends"
    /\ LET allPosts == calls[c].allPosts
           friendIds == getFriendsList(calls[c].currentUserId)
           userIds == {calls[c].currentUserId} \cup friendIds
           before(a, b) ==
               \/ OrZero(allPosts[a].createdAt) > OrZero(allPosts[b].createdAt)
               \/ /\ OrZero(allPosts[a].createdAt) = OrZero(allPosts[b].createdAt)
                  /\ PostRank(a) < PostRank(b)
           sorted[ids \in SUBSET PostIds] ==
               IF ids = {} THEN <<>>
               ELSE LET first == CHOOSE a \in ids : \A b \in ids \ {a} : before(a, b)
                    IN  <<first>> \o sorted[ids \ {first}]
       IN  calls' = [calls EXCEPT
               ![c].pc = "done", ![c].result = "callback",
               ![c].friendIds = friendIds,
               ![c].delivery = NextDelivery,
               ![c].feedPosts = Slice(sorted[{p \in PostIds :
                       /\ allPosts[p] # NoPost
                       /\ allPosts[p].authorId \in userIds}],
                   calls[c].limit)]
    /\ UNCHANGED store

\* ------------------------------------------------------------------ chat.js
\* generateChatId that keeps the order of its arguments
generateChatId_AsGiven(userId1, userId2) == userId1 \o "_" \o userId2

\* generateChatId(userId1, userId2), lines 463-465: the smaller uid first
generateChatId(userId1, userId2) ==
    IF Rank(userId1) < Rank(userId2)
    THEN userId1 \o "_" \o userId2
    ELSE userId2 \o "_" \o userId1

ChatIds == {generateChatId(a, b) : a, b \in Users}

\* chats/{chatId} and userChats/{uid}/{chatId} before anything is written
NoChat == [exists |-> FALSE, lastMessage |-> Null, senderId |-> Null]
NoUserChat == [lastMessage |-> Null, otherUserId |-> Null, unreadCount |-> None]

\* sendMessage(recipientId, messageText), lines 468-538
StartSendMessage(c, uid, recipientId, messageText) ==
    /\ CanStart(c)
    /\ calls' = [calls EXCEPT ![c] = [Idle EXCEPT !.op = "sendMessage",
                    !.pc = "sm_friends", !.currentUserId = uid, !.arg = recipientId,
                    !.arg2 = messageText]]
    /\ UNCHANGED store

\* SmCheckFriends without the throw of line 478
SmCheckFriends_NoThrow(c) ==
    /\ calls[c].pc = "sm_friends"
    /\ Goto(c, "sm_message")
    /\ UNCHANGED store

\* lines 476-479: areFriends(currentUserId, recipientId)
SmCheckFriends(c) ==
    /\ calls[c].pc = "sm_friends"
    /\ IF areFriends(calls[c].currentUserId, calls[c].arg)
       THEN Goto(c, "sm_message")
       ELSE Return(c, "Can only send messages to friends")
    /\ UNCHANGED store

\* serverTimestamp(): the server's clock in milliseconds when it applies the
\* write.  It never runs backwards, and two writes applied within one
\* millisecond get the same value: the time of the latest message or a later one.
ServerTimes ==
    LET stamps == UNION {{OrZero(messages[t][i].timestamp) : i \in DOMAIN messages[t]} :
                            t \in DOMAIN messages}
        latest == IF stamps = {} THEN 1
                  ELSE Max(1, CHOOSE n \in stamps : \A m \in stamps : m <= n)
    IN  {latest, latest + 1}

\* lines 481-494: push under messages/{chatId} and set the message.  The
\* sequence keeps the order in which the server applied the sets; the pushed
\* key (id) is unique to the call and embeds the pushing client's clock, so the
\* keys of two sessions need not follow that order.
SmSetMessage(c) ==
    /\ calls[c].pc = "sm_message"
    /\ \E now \in ServerTimes :
          messages' = [messages EXCEPT
            ![generateChatId(calls[c].currentUserId, calls[c].arg)] =
                Append(@, [id |-> c, senderId |-> calls[c].currentUserId,
                           recipientId |-> calls[c].arg, text |-> calls[c].arg2,
                           timestamp |-> Some(now), read |-> FALSE])]
    /\ Goto(c, "sm_meta")
    /\ UNCHANGED <<profileVars, friendVars, notifications, posts, chats, userChats>>

\* lines 497-506: set chats/{chatId}
SmSetChatMeta(c) ==
    /\ calls[c].pc = "sm_meta"
    /\ chats' = [chats EXCEPT
            ![generateChatId(calls[c].currentUserId, calls[c].arg)] =
                [exists |-> TRUE, lastMessage |-> calls[c].arg2,
                 senderId |-> calls[c].currentUserId]]
    /\ Goto(c, "sm_own")
    /\ UNCHANGED <<profileVars, friendVars, notifications, posts, messages, userChats>>

\* lines 509-513: update userChats/{currentUserId}/{chatId}
SmUpdateOwnChat(c) ==
    /\ calls[c].pc = "sm_own"
    /\ userChats' = [userChats EXCEPT
            ![calls[c].currentUserId][generateChatId(calls[c].currentUserId, calls[c].arg)] =
                [@ EXCEPT !.lastMessage = calls[c].arg2, !.otherUserId = calls[c].arg]]
    /\ Goto(c, "sm_unread")
    /\ UNCHANGED <<profileVars, friendVars, notifications, posts, messages, chats>>

\* getUnreadCount(userId, chatId), lines 765-779: the stored count, 0 if none
getUnreadCount(userId, chatId) == OrZero(userChats[userId][chatId].unreadCount)

\* line 519: await getUnreadCount(recipientId, chatId)
SmGetUnreadCount(c) ==
    /\ calls[c].pc = "sm_unread"
    /\ calls' = [calls EXCEPT
            ![c].pc = "sm_recipient",
            ![c].count = Some(getUnreadCount(calls[c].arg,
                               generateChatId(calls[c].currentUserId, calls[c].arg)))]
    /\ UNCHANGED store

\* lines 515-520: update userChats/{recipientId}/{chatId}, unreadCount one more
\* than the count read
SmUpdateRecipientChat(c) ==
    /\ calls[c].pc = "sm_recipient"
    /\ userChats' = [userChats EXCEPT
            ![calls[c].arg][generateChatId(calls[c].currentUserId, calls[c].arg)] =
                [@ EXCEPT !.lastMessage = calls[c].arg2,
                          !.otherUserId = calls[c].currentUserId,
                          !.unreadCount = Some(OrZero(calls[c].count) + 1)]]
    /\ Goto(c, "sm_notify")
    /\ UNCHANGED <<profileVars, friendVars, notifications, posts, messages, chats>>

\* lines 523-533: getUserProfile(currentUserId), whose .displayName throws on a
\* missing profile, then addNotification(recipientId, new_message); return the key
SmNotify(c) ==
    /\ calls[c].pc = "sm_notify"
    /\ IF users[calls[c].currentUserId].exists
       THEN /\ addNotification(calls[c].arg, "new_message", calls[c].currentUserId)
            /\ Return(c, "key")
       ELSE /\ Return(c, "TypeError")
            /\ UNCHANGED notifications
    /\ UNCHANGED <<profileVars, friendVars, posts, chatVars>>

\* getChatMessages(otherUserId, limit), lines 541-580, and the list that
\* listenToChatMessages hands to its callback, lines 583-619
\* limit = 50, the default of both
MessageLimit == 50

\* query(messagesRef, limitToLast(limit)): the limit records of the greatest keys
LimitToLast(log, limit) ==
    {m \in {log[i] : i \in DOMAIN log} :
        Cardinality({n \in {log[i] : i \in DOMAIN log} : n.id > m.id}) < limit}

\* a before b in the list: Object.keys gives the records in key order, and the
\* sort by (timestamp || 0) is stable, so equal timestamps stay in key order
ListedBefore(a, b) ==
    \/ OrZero(a.timestamp) < OrZero(b.timestamp)
    \/ OrZero(a.timestamp) = OrZero(b.timestamp) /\ a.id < b.id

RECURSIVE SortByTimestamp(_)
SortByTimestamp(records) ==
    IF records = {} THEN <<>>
    ELSE LET first == CHOOSE a \in records : \A b \in records \ {a} : ListedBefore(a, b)
         IN  <<first>> \o SortByTimestamp(records \ {first})

getChatMessages(chatId) == SortByTimestamp(LimitToLast(messages[chatId], MessageLimit))

\* markMessagesAsRead(otherUserId), lines 622-660
\* MarkMessagesAsRead without the update of lines 632-634
MarkMessagesAsRead_NoReset(c, uid, otherUserId) ==
    /\ CanStart(c)
    /\ Begin(c, "markMessagesAsRead", uid, otherUserId, "mr_get")
    /\ UNCHANGED store

\* lines 629-634: update userChats/{currentUserId}/{chatId} with unreadCount 0
MarkMessagesAsRead(c, uid, otherUserId) ==
    /\ CanStart(c)
    /\ userChats' = [userChats EXCEPT
            ![uid][generateChatId(uid, otherUserId)].unreadCount = Some(0)]
    /\ Begin(c, "markMessagesAsRead", uid, otherUserId, "mr_get")
    /\ UNCHANGED <<profileVars, friendVars, notifications, posts, messages, chats>>

\* lines 637-649: get messages/{chatId}; the keys of the unread messages
\* addressed to the caller
MrGetMessages(c) ==
    /\ calls[c].pc = "mr_get"
    /\ LET log == messages[generateChatId(calls[c].currentUserId, calls[c].arg)]
           updates == {log[i].id : i \in {j \in DOMAIN log :
                            /\ log[j].recipientId = calls[c].currentUserId
                            /\ ~log[j].read}}
       IN  IF updates = {}
           THEN Return(c, "undefined")
           ELSE calls' = [calls EXCEPT ![c].pc = "mr_update", ![c].updates = updates]
    /\ UNCHANGED store

\* What update(messagesRef, {id/read: true, ...}) leaves: read set on the
\* messages that are there, and a node holding only read for a key that has
\* been removed since (it has no timestamp, so it sorts first).
RECURSIVE MarkRead(_, _)
MarkRead(log, ids) ==
    IF log = <<>> THEN <<>>
    ELSE <<IF Head(log).id \in ids THEN [Head(log) EXCEPT !.read = TRUE] ELSE Head(log)>>
         \o MarkRead(Tail(log), ids)

RECURSIVE ReadOnlyNodes(_)
ReadOnlyNodes(ids) ==
    IF ids = {} THEN <<>>
    ELSE LET id == CHOOSE i \in ids : \A k \in ids : i <= k
         IN  <<[id |-> id, senderId |-> Undefined, recipientId |-> Undefined,
                text |-> Undefined, timestamp |-> None, read |-> TRUE]>>
             \o ReadOnlyNodes(ids \ {id})

\* MrUpdateMessages setting read on every message of the thread
MrUpdateMessages_MarkAll(c) ==
    /\ calls[c].pc = "mr_update"
    /\ LET chatId == generateChatId(calls[c].currentUserId, calls[c].arg)
           log == messages[chatId]
       IN  messages' = [messages EXCEPT ![chatId] =
               MarkRead(log, {log[i].id : i \in DOMAIN log})]
    /\ Return(c, "undefined")
    /\ UNCHANGED <<profileVars, friendVars, notifications, posts, chats, userChats>>

\* lines 651-656: update messages/{chatId} with the read flags
MrUpdateMessages(c) ==
    /\ calls[c].pc = "mr_update"
    /\ LET chatId == generateChatId(calls[c].currentUserId, calls[c].arg)
           log == messages[chatId]
           present == {log[i].id : i \in DOMAIN log}
       IN  messages' = [messages EXCEPT ![chatId] =
               ReadOnlyNodes(calls[c].updates \ present) \o MarkRead(log, calls[c].updates)]
    /\ Return(c, "undefined")
    /\ UNCHANGED <<profileVars, friendVars, notifications, posts, chats, userChats>>

\* deleteMessage(otherUserId, messageId), lines 811-841
StartDeleteMessage(c, uid, otherUserId, messageId) ==
    /\ CanStart(c)
    /\ calls' = [calls EXCEPT ![c] = [Idle EXCEPT !.op = "deleteMessage",
                    !.pc = "dm_get", !.currentUserId = uid, !.arg = otherUserId,
                    !.commentId = messageId]]
    /\ UNCHANGED store

\* lines 819-830: get the message; it must exist and be the caller's
DmGetMessage(c) ==
    /\ calls[c].pc = "dm_get"
    /\ LET log == messages[generateChatId(calls[c].currentUserId, calls[c].arg)]
           found == {i \in DOMAIN log : log[i].id = calls[c].commentId}
       IN  IF found = {}
           THEN Return(c, "Message not found")
           ELSE IF \E i \in found : log[i].senderId # calls[c].currentUserId
           THEN Return(c, "Can only delete your own messages")
           ELSE Goto(c, "dm_remove")
    /\ UNCHANGED store

\* lines 832-836: remove the message
DmRemoveMessage(c) ==
    /\ calls[c].pc = "dm_remove"
    /\ messages' = [messages EXCEPT
            ![generateChatId(calls[c].currentUserId, calls[c].arg)] =
                WithoutId(@, calls[c].commentId)]
    /\ Return(c, "true")
    /\ UNCHANGED <<profileVars, friendVars, notifications, posts, chats, userChats>>

\* startChatWithFriend(friendId), lines 844-888
StartStartChatWithFriend(c, uid, friendId) ==
    /\ CanStart(c)
    /\ Begin(c, "startChatWithFriend", uid, friendId, "sc_friends")
    /\ UNCHANGED store

\* lines 852-855: areFriends(currentUserId, friendId)
ScCheckFriends(c) ==
    /\ calls[c].pc = "sc_friends"
    /\ IF areFriends(calls[c].currentUserId, calls[c].arg)
       THEN Goto(c, "sc_getmeta")
       ELSE Return(c, "Can only chat with friends")
    /\ UNCHANGED store

\* lines 860-863: get chats/{chatId}
ScGetChatMeta(c) ==
    /\ calls[c].pc = "sc_getmeta"
    /\ IF chats[generateChatId(calls[c].currentUserId, calls[c].arg)].exists
       THEN Goto(c, "sc_own")
       ELSE Goto(c, "sc_setmeta")
    /\ UNCHANGED store

\* lines 864-868: set chats/{chatId} to the participants alone
ScSetChatMeta(c) ==
    /\ calls[c].pc = "sc_setmeta"
    /\ chats' = [chats EXCEPT
            ![generateChatId(calls[c].currentUserId, calls[c].arg)] =
                [NoChat EXCEPT !.exists = TRUE]]
    /\ Goto(c, "sc_own")
    /\ UNCHANGED <<profileVars, friendVars, notifications, posts, messages, userChats>>

\* lines 872-875: update userChats/{currentUserId}/{chatId}, unreadCount 0
ScUpdateOwnChat(c) ==
    /\ calls[c].pc = "sc_own"
    /\ userChats' = [userChats EXCEPT
            ![calls[c].currentUserId][generateChatId(calls[c].currentUserId, calls[c].arg)] =
                [@ EXCEPT !.otherUserId = calls[c].arg, !.unreadCount = Some(0)]]
    /\ Goto(c, "sc_friend")
    /\ UNCHANGED <<profileVars, friendVars, notifications, posts, messages, chats>>

\* lines 877-883: update userChats/{friendId}/{chatId}, unreadCount 0
ScUpdateFriendChat(c) ==
    /\ calls[c].pc = "sc_friend"
    /\ userChats' = [userChats EXCEPT
            ![calls[c].arg][generateChatId(calls[c].currentUserId, calls[c].arg)] =
                [@ EXCEPT !.otherUserId = calls[c].currentUserId,
                          !.unreadCount = Some(0)]]
    /\ Return(c, "chatId")
    /\ UNCHANGED <<profileVars, friendVars, notifications, posts, messages, chats>>

\* ------------------------------------------------------------------ initial store
\* Two signed-in users who have chosen their usernames
InitProfiles ==
    /\ users = [u \in Users |-> IF u = "u1" THEN Profile("alice") ELSE Profile("bob")]
    /\ usernames = [n \in Names |-> CASE n = "alice" -> "u1" [] n = "bob" -> "u2"
                                       [] OTHER -> Null]

NoFriends == friends = {} /\ friendRequests = {}
NoNotifications == notifications = [u \in Users \cup {Undefined} |-> <<>>]
NoPosts == posts = [p \in PostIds |-> NoPost] /\ userPosts = {}
NoChats ==
    /\ messages = [t \in ChatIds |-> <<>>]
    /\ chats = [t \in ChatIds |-> NoChat]
    /\ userChats = [u \in Users |-> [t \in ChatIds |-> NoUserChat]]
NoCalls == calls = [c \in Calls |-> Idle]
\* nothing under presence; every client is connected and signed in
NoPresence ==
    /\ presence = [u \in Users |-> [status |-> "none", onDisconnect |-> FALSE]]
    /\ clients = [u \in Users |-> [connected |-> TRUE, currentUser |-> TRUE]]

Init == InitProfiles /\ NoFriends /\ NoNotifications /\ NoPosts /\ NoChats /\ NoCalls /\ NoPresence

\* ------------------------------------------------------------------ friend system
StartFriendCall ==
    \E c \in Calls, uid \in Users :
        \/ \E targetUsername \in Names : StartSendFriendRequest(c, uid, targetUsername)
        \/ \E other \in Users \ {uid} :
              \/ StartAcceptFriendRequest(c, uid, other)
              \/ RejectFriendRequest(c, uid, other)
              \/ StartRemoveFriend(c, uid, other)

StepFriendCall ==
    \E c \in Calls :
        \/ SfrResolveTarget(c)
        \/ SfrCheckFriends(c)
        \/ SfrCheckRequest(c)
        \/ SfrCheckReverse(c)
        \/ SfrSetRequest(c)
        \/ SfrNotify(c)
        \/ AfrRemoveRequest(c)
        \/ AfrSetOwnEdge(c)
        \/ AfrSetMirrorEdge(c)
        \/ AfrNotify(c)
        \/ RfRemoveOwnEdge(c)
        \/ RfRemoveMirrorEdge(c)

\* Calls of any sessions, interleaved at their store operations.
NextFriends == StartFriendCall \/ StepFriendCall

SpecFriends == Init /\ [][NextFriends]_vars

\* One call at a time: a call starts only when none is in flight.
NextFriendsSeq == (NoneInFlight /\ StartFriendCall) \/ StepFriendCall

SpecFriendsSeq == Init /\ [][NextFriendsSeq]_vars

\* Friend calls and friendship reads, interleaved at their store operations.
StartFriendRead ==
    \E c \in Calls, uid \in Users :
        \/ \E other \in Users \ {uid} : AreFriends(c, uid, other)
        \/ StartGetFriendsList(c, uid)

StepFriendRead == \E c \in Calls : GflGetFriends(c)

NextFriendReads == StartFriendCall \/ StepFriendCall \/ StartFriendRead \/ StepFriendRead

SpecFriendReads == Init /\ [][NextFriendReads]_vars

\* C26: when an areFriends or getFriendsList read completes while exactly one
\* of friends/A/B and friends/B/A exists, the read repairs the pair: after the
\* read either both edges exist or neither does.
C26_ReadRepairsAsymmetry ==
    [][\A c \in Calls, a, b \in Users :
          ( /\ <<a, b>> \in friends /\ <<b, a>> \notin friends
            /\ calls[c].pc # "done"
            /\ calls'[c].pc = "done"
            /\ calls'[c].op \in {"areFriends", "getFriendsList"}
            /\ calls'[c].currentUserId \in {a, b} )
          => (<<a, b>> \in friends' <=> <<b, a>> \in friends')]_vars

\* ------------------------------------------------------------------ subscriptions
\* Both users have a listenToFriendsList subscription; they are friends or not.
InitListen ==
    /\ InitProfiles /\ NoNotifications /\ NoPosts /\ NoChats /\ NoCalls /\ NoPresence
    /\ friendRequests = {}
    /\ friends \in {{}, {<<"u1", "u2">>, <<"u2", "u1">>}}

StartListenStep ==
    \E c \in Calls, uid \in Users :
        \/ FlOnValue(c, uid)
        \/ Unsubscribe(c, uid)

StepListen == \E c \in Calls : FlGetUserProfile(c)

NextListen == StartFriendCall \/ StepFriendCall \/ StartListenStep \/ StepListen

SpecListen == InitListen /\ [][NextListen]_vars

\* C29: after the unsubscribe function of a subscription has been called and
\* has returned, the subscriber's callback is not invoked again, not even by a
\* handler that was awaiting its profile lookups when it was called.
C29_NoCallbackAfterUnsubscribe ==
    [][\A c \in Calls :
          (calls[c].delivery = 0 /\ calls'[c].delivery > 0) =>
              ~Unsubscribed(calls'[c].currentUserId)]_vars

\* C30: the snapshots of a subscription reach the callback in the order in
\* which onValue handed them to the handler, and once no call is in flight and
\* no snapshot is outstanding, the list delivered last to an active
\* subscription is the current friends list.
C30_SnapshotsDeliveredInOrder ==
    \A uid \in Users :
        /\ \A c, d \in Handlers(uid) :
              (c < d /\ calls[c].delivery > 0 /\ calls[d].delivery > 0) =>
                  calls[c].delivery < calls[d].delivery
        /\ (NoneInFlight /\ ~EventPending(uid) /\ ~Unsubscribed(uid)) =>
              \A c \in Handlers(uid) :
                  (\A d \in Handlers(uid) : calls[d].delivery <= calls[c].delivery) =>
                      calls[c].friendIds = getFriendsList(uid)

\* ------------------------------------------------------------------ missing profile
\* u1 is signed in but users/u1 was never stored: storeUserData of auth.js,
\* lines 96-113, only logs a failure of storeUserProfile.  u2 has its profile.
InitNoProfile ==
    /\ users = [u \in Users |-> IF u = "u1" THEN NoProfile ELSE Profile("bob")]
    /\ usernames = [n \in Names |-> IF n = "bob" THEN "u2" ELSE Null]
    /\ NoFriends /\ NoNotifications /\ NoPosts /\ NoChats /\ NoCalls /\ NoPresence

SpecNoProfile == InitNoProfile /\ [][NextFriends]_vars

\* C35: a command that reports failure to its caller has made no store write:
\* when a sendFriendRequest, acceptFriendRequest, sendMessage, togglePostLike
\* or addComment call ends with an error, it ends from a position before its
\* first write (request, request removal and friend edges, message, like,
\* comment).
C35_FailureMeansNoWrite ==
    [][\A c \in Calls :
          ( /\ calls[c].pc # "done"
            /\ calls'[c].pc = "done"
            /\ calls'[c].op \in {"sendFriendRequest", "acceptFriendRequest",
                                 "sendMessage", "togglePostLike", "addComment"}
            /\ calls'[c].result \notin {"true", "key"} )
          => calls[c].pc \notin {"sfr_notify", "afr_set1", "afr_set2", "afr_notify",
                                 "sm_meta", "sm_own", "sm_unread", "sm_recipient",
                                 "sm_notify", "tpl_notify", "ac_get", "ac_update",
                                 "ac_notify"}]_vars

\* ------------------------------------------------------------------ signed out
\* Commands called by a client on which nobody is signed in
NextSignedOut ==
    \E c \in Calls, op \in ThrowingCommands \cup ReturningCommands : CallSignedOut(c, op)

SpecSignedOut == Init /\ [][NextSignedOut]_vars

\* C25: a command called while no user is signed in has failed with
\* "User not authenticated", and nothing has been written: no friend edge, no
\* request, no notification, no post, no message.
C25_SignedOutCommandsFail ==
    /\ \A c \in Calls :
          (Done(c) /\ calls[c].currentUserId = Null) =>
              calls[c].result = "User not authenticated"
    /\ NoFriends /\ NoNotifications /\ NoPosts /\ NoChats

\* ------------------------------------------------------------------ suggestions
\* Friend calls and getFriendSuggestions calls, one call at a time.
StartSuggestionCall ==
    \E c \in Calls, uid \in Users, limit \in SuggestionLimits :
        StartGetFriendSuggestions(c, uid, limit)

StepSuggestionCall ==
    \E c \in Calls :
        \/ GfsGetFriends(c)
        \/ GfsGetRequests(c)
        \/ GfsFilter(c)

NextSuggestions ==
    \/ NoneInFlight /\ (StartFriendCall \/ StartSuggestionCall)
    \/ StepFriendCall
    \/ StepSuggestionCall

SpecSuggestions == Init /\ [][NextSuggestions]_vars

\* C24: when the getFriendSuggestions(limit) call of user U that was made last
\* has returned, its list has at most limit users and holds neither U, nor a
\* user with a friends/U/{user} edge, nor a user who has a pending request to
\* U, nor a user to whom U has a pending request.
C24_SuggestionsExcludePending ==
    \A c \in Calls :
        (calls[c].op = "getFriendSuggestions" /\ Done(c) /\ IsLast(c)) =>
            LET U == calls[c].currentUserId
                list == calls[c].suggestions
            IN  /\ Len(list) <= calls[c].limit
                /\ \A k \in DOMAIN list :
                      /\ list[k] # U
                      /\ ~areFriends(U, list[k])
                      /\ <<U, list[k]>> \notin friendRequests
                      /\ <<list[k], U>> \notin friendRequests

\* ------------------------------------------------------------------ posts
\* u1 has created the post p1; p2 is the key of no post.
InitPosts ==
    /\ InitProfiles /\ NoFriends /\ NoNotifications /\ NoChats /\ NoCalls /\ NoPresence
    /\ posts = [p \in PostIds |-> IF p = "p1" THEN NewPost("u1", 1) ELSE NoPost]
    /\ userPosts = {<<"u1", "p1">>}

StartPostCall ==
    \E c \in Calls, uid \in Users, postId \in PostIds :
        \/ StartTogglePostLike(c, uid, postId)
        \/ \E commentText \in Texts : StartAddComment(c, uid, postId, commentText)
        \/ \E commentId \in Calls : StartDeleteComment(c, uid, postId, commentId)

StepPostCall ==
    \E c \in Calls :
        \/ TplGetPost(c)
        \/ TplUpdate(c)
        \/ TplNotify(c)
        \/ AcSetComment(c)
        \/ AcGetPost(c)
        \/ AcUpdateCount(c)
        \/ AcNotify(c)
        \/ DcGetComment(c)
        \/ DcRemoveComment(c)
        \/ DcGetPost(c)
        \/ DcUpdateCount(c)

NextPosts == StartPostCall \/ StepPostCall

SpecPosts == InitPosts /\ [][NextPosts]_vars

\* ------------------------------------------------------------------ posts and comments of an author
\* u1 has created the post p1 and commented on it.
InitPostAdmin ==
    /\ InitProfiles /\ NoFriends /\ NoNotifications /\ NoChats /\ NoCalls /\ NoPresence
    /\ posts = [p \in PostIds |->
                  IF p = "p1"
                  THEN [NewPost("u1", 1) EXCEPT
                           !.comments = <<[id |-> 0, authorId |-> "u1"]>>,
                           !.commentsCount = Some(1)]
                  ELSE NoPost]
    /\ userPosts = {<<"u1", "p1">>}

StartPostAdminCall ==
    \E c \in Calls, uid \in Users :
        \/ \E content \in PostContents, imageFile \in BOOLEAN :
              StartCreatePost(c, uid, content, imageFile)
        \/ \E postId \in PostIds : StartDeletePost(c, uid, postId)
        \/ \E postId \in PostIds : StartDeleteComment(c, uid, postId, 0)

StepPostAdminCall ==
    \E c \in Calls :
        \/ CpUploadImage(c)
        \/ CpSetPost(c)
        \/ CpSetIndex(c)
        \/ DpGetPost(c)
        \/ DpRemovePost(c)
        \/ DpRemoveIndex(c)
        \/ DcGetComment(c)
        \/ DcRemoveComment(c)
        \/ DcGetPost(c)
        \/ DcUpdateCount(c)

NextPostAdmin == StartPostAdminCall \/ StepPostAdminCall

SpecPostAdmin == InitPostAdmin /\ [][NextPostAdmin]_vars

\* ------------------------------------------------------------------ feed
\* u1 has created the post p1; u1 and u2 are friends, or are not, or only
\* friends/u1/u2 is left of their friendship.
InitFeed ==
    /\ InitProfiles /\ NoNotifications /\ NoChats /\ NoCalls /\ NoPresence
    /\ friendRequests = {}
    /\ friends \in {{}, {<<"u1", "u2">>, <<"u2", "u1">>}, {<<"u1", "u2">>}}
    /\ posts = [p \in PostIds |-> IF p = "p1" THEN NewPost("u1", 1) ELSE NoPost]
    /\ userPosts = {<<"u1", "p1">>}

StartFeedCall ==
    \E c \in Calls, uid \in Users :
        \/ StartCreatePost(c, uid, "hello", FALSE)
        \/ \E postId \in PostIds : StartDeletePost(c, uid, postId)
        \/ \E limit \in FeedLimits : StartGetFeedPosts(c, uid, limit)

StepFeedCall ==
    \E c \in Calls :
        \/ CpSetPost(c)
        \/ CpSetIndex(c)
        \/ DpGetPost(c)
        \/ DpRemovePost(c)
        \/ DpRemoveIndex(c)
        \/ GfpGetFriends(c)
        \/ GfpGetPosts(c)

NextFeed == StartFeedCall \/ StepFeedCall

SpecFeed == InitFeed /\ [][NextFeed]_vars

\* ------------------------------------------------------------------ feed subscription
\* u1 and u2 are friends and both have a listenToFeedPosts subscription; u2
\* has a post.  Posts are created and friends removed while snapshots are
\* delivered.
InitFeedListen ==
    /\ InitProfiles /\ NoNotifications /\ NoChats /\ NoCalls /\ NoPresence
    /\ friendRequests = {}
    /\ friends = {<<"u1", "u2">>, <<"u2", "u1">>}
    /\ posts = [p \in PostIds |-> IF p = "p1" THEN NewPost("u2", 1) ELSE NoPost]
    /\ userPosts = {<<"u2", "p1">>}

NextFeedListen ==
    \/ \E c \in Calls, uid \in Users :
           \/ StartCreatePost(c, uid, "hello", FALSE)
           \/ \E other \in Users \ {uid} : StartRemoveFriend(c, uid, other)
           \/ \E limit \in FeedLimits : LfpOnValue(c, uid, limit)
    \/ \E c \in Calls :
           \/ CpSetPost(c)
           \/ CpSetIndex(c)
           \/ RfRemoveOwnEdge(c)
           \/ RfRemoveMirrorEdge(c)
           \/ LfpGetFriends(c)

SpecFeedListen == InitFeedListen /\ [][NextFeedListen]_vars

\* C31: the list a listenToFeedPosts handler hands to the callback is made
\* from the friends the subscriber has when the handler reads them: it holds
\* the posts of the snapshot written by the subscriber or by those friends and
\* no others, the newest first, cut to the limit.
C31_FeedSnapshotUsesCurrentFriends ==
    [][\A c \in Calls :
          (calls'[c].op = "feedPostsHandler" /\ calls[c].delivery = 0
              /\ calls'[c].delivery > 0) =>
             LET U == calls'[c].currentUserId
                 list == calls'[c].feedPosts
                 allPosts == calls'[c].allPosts
                 wanted == {p \in PostIds :
                               /\ allPosts[p] # NoPost
                               /\ \/ allPosts[p].authorId = U
                                  \/ /\ allPosts[p].authorId \in Users
                                     /\ areFriends(U, allPosts[p].authorId)}
                 listed == {list[k] : k \in DOMAIN list}
             IN  /\ listed \subseteq wanted
                 /\ \A k, l \in DOMAIN list : k < l =>
                        /\ list[k] # list[l]
                        /\ OrZero(allPosts[list[k]].createdAt)
                              >= OrZero(allPosts[list[l]].createdAt)
                 /\ Len(list) = IF Cardinality(wanted) < calls'[c].limit
                                THEN Cardinality(wanted) ELSE calls'[c].limit
                 /\ \A p \in wanted \ listed : \A q \in listed :
                        OrZero(allPosts[q].createdAt) >= OrZero(allPosts[p].createdAt)]_vars

\* u1's handler got a snapshot with u2's post p1; u1 removed u2 from its
\* friends before the handler read them, and the list delivered is empty
C31_Witness ==
    \E c, d \in Calls :
        /\ calls[c].op = "feedPostsHandler" /\ calls[c].delivery > 0
        /\ calls[c].currentUserId = "u1"
        /\ calls[c].allPosts["p1"].authorId = "u2"
        /\ calls[c].feedPosts = <<>>
        /\ calls[d].op = "removeFriend" /\ Done(d) /\ calls[d].currentUserId = "u1"

\* ------------------------------------------------------------------ likes
\* togglePostLike calls alone, on u1's post p1 and on the key p2 of no post
StartLikeCall ==
    \E c \in Calls, uid \in Users, postId \in PostIds : StartTogglePostLike(c, uid, postId)

StepLikeCall ==
    \E c \in Calls :
        \/ TplGetPost(c)
        \/ TplUpdate(c)
        \/ TplNotify(c)

NextLikes == StartLikeCall \/ StepLikeCall

SpecLikes == InitPosts /\ [][NextLikes]_vars

\* C21 as stated: for every user and every post author, the post_like
\* notifications from the user in the author's queue are as many as the
\* togglePostLike calls of the user on the author's posts that returned true
\* (found the post not liked and liked it), the author's own likes included.
C21_NotifiesEveryLike ==
    NoneInFlight =>
        \A u \in Users : \A a \in Users :
            Cardinality({i \in DOMAIN notifications[a] :
                            /\ notifications[a][i].type = "post_like"
                            /\ notifications[a][i].from = u})
            = Cardinality({c \in Calls : /\ calls[c].op = "togglePostLike"
                                         /\ calls[c].currentUserId = u
                                         /\ calls[c].authorId = a
                                         /\ calls[c].result = "true"})

\* C21 amended: the same count for a user other than the author; a call that
\* returned false (an unlike) and a like of the author's own post add no
\* notification.
C21_NotifiesLikeOfOthersPost ==
    NoneInFlight =>
        \A u \in Users : \A a \in Users :
            Cardinality({i \in DOMAIN notifications[a] :
                            /\ notifications[a][i].type = "post_like"
                            /\ notifications[a][i].from = u})
            = Cardinality({c \in Calls : /\ calls[c].op = "togglePostLike"
                                         /\ calls[c].currentUserId = u
                                         /\ calls[c].authorId = a
                                         /\ u # a
                                         /\ calls[c].result = "true"})

\* u2 has liked and unliked u1's post and u1 has liked it: one notification
C21_Witness ==
    /\ NoneInFlight
    /\ \E c, d, e \in Calls :
          /\ calls[c].currentUserId = "u2" /\ calls[c].arg = "p1" /\ calls[c].result = "true"
          /\ calls[d].currentUserId = "u2" /\ calls[d].arg = "p1" /\ calls[d].result = "false"
          /\ calls[e].currentUserId = "u1" /\ calls[e].arg = "p1" /\ calls[e].result = "true"
    /\ Len(notifications["u1"]) = 1

\* C22: the step in which a togglePostLike call reads a post id under which
\* nothing is stored ends the call with "Post not found" and changes nothing
\* that is stored; no later step of such a call exists.
C22_LikeOfMissingPostFails ==
    [][\A c \in Calls :
          (/\ calls[c].op = "togglePostLike" /\ calls'[c] # calls[c]
           /\ calls[c].pc = "tpl_get" /\ ~PostExists(calls[c].arg)) =>
              /\ calls'[c].pc = "done"
              /\ calls'[c].result = "Post not found"
              /\ store' = store]_vars

\* a togglePostLike of p2 has failed and nothing is stored under p2
C22_Witness ==
    \E c \in Calls :
        /\ calls[c].op = "togglePostLike" /\ calls[c].arg = "p2"
        /\ calls[c].result = "Post not found"
        /\ posts["p2"] = NoPost
        /\ \A u \in Users \cup {Undefined} : notifications[u] = <<>>

\* u2 has liked u1's post p1 before; togglePostLike calls alone.
InitLiked ==
    /\ InitProfiles /\ NoFriends /\ NoNotifications /\ NoChats /\ NoCalls /\ NoPresence
    /\ posts = [p \in PostIds |->
                  IF p = "p1"
                  THEN [NewPost("u1", 1) EXCEPT !.likes = {"u2"}, !.likesCount = Some(1)]
                  ELSE NoPost]
    /\ userPosts = {<<"u1", "p1">>}

SpecLiked == InitLiked /\ [][NextLikes]_vars

\* C39: the likesCount of every post is greater than or equal to 0 in every
\* reachable state, under any interleaving of togglePostLike calls.
C39_LikesCountNotNegative ==
    \A p \in PostIds : \A n \in posts[p].likesCount : n >= 0

\* ------------------------------------------------------------------ post properties
\* C1: after togglePostLike calls alone have run to completion, the likesCount
\* of every post that createPost made equals the number of user ids in its
\* likes set.
C1_LikesCountMatches ==
    (NoneInFlight /\ \A c \in Started : calls[c].op = "togglePostLike") =>
        \A p \in PostIds : posts[p].authorId # Null =>
            posts[p].likesCount = Some(Cardinality(posts[p].likes))

\* C9: after addComment and deleteComment calls alone have run to completion,
\* the commentsCount of every post that createPost made equals the number of
\* records under its comments.
C9_CommentsCountMatches ==
    (NoneInFlight /\ \A c \in Started : calls[c].op \in {"addComment", "deleteComment"}) =>
        \A p \in PostIds : posts[p].authorId # Null =>
            posts[p].commentsCount = Some(Len(posts[p].comments))

\* C16: every step of a createPost call whose content trims to nothing and
\* that has no image changes nothing that is stored and ends the call with
\* "Post must have content or an image"; the step in which a createPost call
\* sets its post stores the author, no likes, no comments, likesCount 0 and
\* commentsCount 0; and a call that returns the key has set
\* userPosts/{author}/{key}.
C16_CreatePostValidates ==
    [][\A c \in Calls :
          (calls'[c].op = "createPost" /\ calls'[c] # calls[c]) =>
             /\ (Trim(calls'[c].arg2) = "" /\ ~calls'[c].imageFile) =>
                    /\ store' = store
                    /\ calls'[c].pc = "done"
                    /\ calls'[c].result = "Post must have content or an image"
             /\ calls'[c].pc = "cp_index" =>
                    /\ posts'[calls'[c].arg].authorId = calls'[c].currentUserId
                    /\ posts'[calls'[c].arg].likes = {}
                    /\ posts'[calls'[c].arg].comments = <<>>
                    /\ posts'[calls'[c].arg].likesCount = Some(0)
                    /\ posts'[calls'[c].arg].commentsCount = Some(0)
             /\ calls'[c].result = "key" =>
                    <<calls'[c].currentUserId, calls'[c].arg>> \in userPosts']_vars

\* a blank createPost has failed and a createPost with an image and blank
\* content has stored its post
C16_Witness ==
    \E c, d \in Calls :
        /\ calls[c].op = "createPost" /\ Done(c)
        /\ calls[c].result = "Post must have content or an image"
        /\ calls[d].op = "createPost" /\ calls[d].result = "key"
        /\ calls[d].arg2 = " " /\ calls[d].imageFile
        /\ PostExists(calls[d].arg)

\* C17: a step of a deletePost call on a post whose author is another user,
\* and a step of a deleteComment call on a comment whose author is another
\* user, changes nothing that is stored (post, comments, commentsCount,
\* userPosts) and ends the call with the Forbidden error.
C17_OnlyAuthorDeletes ==
    [][\A c \in Calls :
          /\ (/\ calls[c].op = "deletePost" /\ calls'[c] # calls[c]
              /\ posts[calls[c].arg].authorId \notin {Null, calls[c].currentUserId}) =>
                 /\ store' = store
                 /\ calls'[c].pc = "done"
                 /\ calls'[c].result = "Can only delete your own posts"
          /\ (/\ calls[c].op = "deleteComment" /\ calls'[c] # calls[c]
              /\ \E comment \in CommentAt(calls[c].arg, calls[c].commentId) :
                     comment.authorId # calls[c].currentUserId) =>
                 /\ store' = store
                 /\ calls'[c].pc = "done"
                 /\ calls'[c].result = "Can only delete your own comments"]_vars

\* u2 has tried to delete u1's post and u1's comment; both are still there
C17_Witness ==
    \E c, d \in Calls :
        /\ calls[c].op = "deletePost" /\ calls[c].currentUserId = "u2"
        /\ calls[c].arg = "p1" /\ calls[c].result = "Can only delete your own posts"
        /\ calls[d].op = "deleteComment" /\ calls[d].currentUserId = "u2"
        /\ calls[d].arg = "p1" /\ calls[d].result = "Can only delete your own comments"
        /\ posts["p1"].authorId = "u1" /\ Len(posts["p1"].comments) = 1
        /\ posts["p1"].commentsCount = Some(1) /\ <<"u1", "p1">> \in userPosts

\* C32: after a deletePost(postId) call of the author has completed, neither
\* posts/{postId} nor userPosts/{author}/{postId} exists; and whenever no call
\* is in flight, userPosts/{author}/{postId} exists exactly when
\* posts/{postId} exists with that author.
C32_PostAndIndexAgree ==
    /\ \A c \in Calls :
          (calls[c].op = "deletePost" /\ Succeeded(c)) =>
              /\ ~PostExists(calls[c].arg)
              /\ <<calls[c].currentUserId, calls[c].arg>> \notin userPosts
    /\ NoneInFlight =>
          \A u \in Users, p \in PostIds :
              <<u, p>> \in userPosts <=> (PostExists(p) /\ posts[p].authorId = u)

\* deletePost calls interleaved with togglePostLike and addComment calls on
\* u1's post p1
NextPostRaces ==
    \/ \E c \in Calls, uid \in Users, postId \in PostIds :
           \/ StartDeletePost(c, uid, postId)
           \/ StartTogglePostLike(c, uid, postId)
           \/ StartAddComment(c, uid, postId, "nice")
    \/ \E c \in Calls :
           \/ DpGetPost(c)
           \/ DpRemovePost(c)
           \/ DpRemoveIndex(c)
           \/ TplGetPost(c)
           \/ TplUpdate(c)
           \/ TplNotify(c)
           \/ AcSetComment(c)
           \/ AcGetPost(c)
           \/ AcUpdateCount(c)
           \/ AcNotify(c)

SpecPostRaces == InitPosts /\ [][NextPostRaces]_vars

\* C37: once a deletePost(P) call of the author has completed, posts/P stays
\* absent: a togglePostLike or addComment call on P that read the post before
\* the removal and writes after it creates nothing under posts/P.
C37_DeletedPostStaysAbsent ==
    \A c \in Calls :
        (calls[c].op = "deletePost" /\ Succeeded(c)) => ~PostExists(calls[c].arg)

\* C38: addComment(postId, text) with a text that is not blank, on a post id
\* under which nothing is stored, fails and writes nothing: no step of the call
\* changes the store while posts/{postId} does not exist, and the call does
\* not end with a comment key.
C38_CommentOnMissingPostFails ==
    [][\A c \in Calls :
          ( /\ calls'[c].op = "addComment"
            /\ calls'[c] # calls[c]
            /\ Trim(calls'[c].arg2) # ""
            /\ ~PostExists(calls'[c].arg) )
          => /\ store' = store
             /\ calls'[c].pc = "done" => calls'[c].result # "key"]_vars

\* C18: the list that a getFeedPosts(limit) call of user U returns holds only
\* posts whose author is U or a user with a friends/U/{user} edge, each once,
\* the later createdAt first; it has limit entries, or all such posts when
\* they are fewer; and a post of U or of a friend that is left out is not
\* newer than any post listed.
C18_FeedIsOwnAndFriendsPosts ==
    [][\A c \in Calls :
          (calls'[c].op = "getFeedPosts" /\ calls'[c].pc = "done"
              /\ calls[c].pc # "done") =>
             LET U == calls'[c].currentUserId
                 list == calls'[c].feedPosts
                 wanted == {p \in PostIds :
                               /\ PostExists(p)
                               /\ \/ posts[p].authorId = U
                                  \/ /\ posts[p].authorId \in Users
                                     /\ areFriends(U, posts[p].authorId)}
                 listed == {list[k] : k \in DOMAIN list}
             IN  /\ listed \subseteq wanted
                 /\ \A k, l \in DOMAIN list : k < l =>
                        /\ list[k] # list[l]
                        /\ OrZero(posts[list[k]].createdAt) >= OrZero(posts[list[l]].createdAt)
                 /\ Len(list) = IF Cardinality(wanted) < calls'[c].limit
                                THEN Cardinality(wanted) ELSE calls'[c].limit
                 /\ \A p \in wanted \ listed : \A q \in listed :
                        OrZero(posts[q].createdAt) >= OrZero(posts[p].createdAt)]_vars

\* u1's feed with limit 1 holds the newer post of the friend u2 and leaves
\* out u1's own older post
C18_Witness ==
    \E c \in Calls :
        /\ calls[c].op = "getFeedPosts" /\ Done(c)
        /\ calls[c].currentUserId = "u1" /\ calls[c].limit = 1
        /\ calls[c].feedPosts = <<"p2">>
        /\ posts["p2"].authorId = "u2" /\ posts["p1"].authorId = "u1"

\* ------------------------------------------------------------------ chat
\* u1 and u2 are friends (an accepted request), or are not.
InitChat ==
    /\ InitProfiles /\ NoNotifications /\ NoPosts /\ NoChats /\ NoCalls /\ NoPresence
    /\ friendRequests = {}
    /\ friends \in {{}, {<<"u1", "u2">>, <<"u2", "u1">>}}

StartChatCall ==
    \E c \in Calls, uid \in Users :
        \E other \in Users \ {uid} :
            \/ \E messageText \in MessageTexts : StartSendMessage(c, uid, other, messageText)
            \/ MarkMessagesAsRead(c, uid, other)
            \/ \E messageId \in Calls : StartDeleteMessage(c, uid, other, messageId)
            \/ StartStartChatWithFriend(c, uid, other)

StepChatCall ==
    \E c \in Calls :
        \/ SmCheckFriends(c)
        \/ SmSetMessage(c)
        \/ SmSetChatMeta(c)
        \/ SmUpdateOwnChat(c)
        \/ SmGetUnreadCount(c)
        \/ SmUpdateRecipientChat(c)
        \/ SmNotify(c)
        \/ MrGetMessages(c)
        \/ MrUpdateMessages(c)
        \/ DmGetMessage(c)
        \/ DmRemoveMessage(c)
        \/ ScCheckFriends(c)
        \/ ScGetChatMeta(c)
        \/ ScSetChatMeta(c)
        \/ ScUpdateOwnChat(c)
        \/ ScUpdateFriendChat(c)

NextChat == StartChatCall \/ StepChatCall

SpecChat == InitChat /\ [][NextChat]_vars

\* One call at a time.
NextChatSeq == (NoneInFlight /\ StartChatCall) \/ StepChatCall

SpecChatSeq == InitChat /\ [][NextChatSeq]_vars

\* ------------------------------------------------------------------ chat properties
\* C6: after sendMessage calls alone have run to completion, every user's
\* unread count for the thread equals the number of sendMessage calls addressed
\* to that user that returned a key: each send added one to the recipient's
\* count and none to the sender's, however the sends interleaved.
C6_UnreadGrowsByOnePerSend ==
    (NoneInFlight /\ \A c \in Started : calls[c].op = "sendMessage") =>
        \A u \in Users : \A other \in Users \ {u} :
            getUnreadCount(u, generateChatId(u, other)) =
                Cardinality({c \in Calls : /\ calls[c].op = "sendMessage"
                                           /\ calls[c].arg = u
                                           /\ calls[c].currentUserId = other
                                           /\ calls[c].result = "key"})

\* C7: whenever no messaging call is in flight, for every user and thread the
\* stored unreadCount equals the number of messages of the thread addressed to
\* the user whose read flag is false.
C7_UnreadCountMatchesLog ==
    NoneInFlight =>
        \A u \in Users : \A t \in ChatIds :
            getUnreadCount(u, t) =
                Cardinality({i \in DOMAIN messages[t] :
                                /\ messages[t][i].recipientId = u
                                /\ ~messages[t][i].read})

\* C12: a sendMessage call whose sender has no friends/{sender}/{recipient}
\* edge gets no further than the friendship check and fails with "Can only
\* send messages to friends"; and while nobody has a friend edge the store
\* holds no message, no thread summary, no notification, and no userChats
\* entry with a lastMessage or an otherUserId.
C12_NotFriendsWritesNothing ==
    /\ \A c \in Calls :
          (calls[c].op = "sendMessage"
              /\ ~areFriends(calls[c].currentUserId, calls[c].arg)) =>
             /\ calls[c].pc \in {"sm_friends", "done"}
             /\ Done(c) => calls[c].result = "Can only send messages to friends"
    /\ friends = {} =>
          /\ \A t \in ChatIds : messages[t] = <<>> /\ chats[t] = NoChat
          /\ \A u \in Users : notifications[u] = <<>>
          /\ \A u \in Users : \A t \in ChatIds :
                userChats[u][t].lastMessage = Null /\ userChats[u][t].otherUserId = Null

\* a sendMessage between users who are not friends has failed
C12_Witness ==
    /\ friends = {}
    /\ \E c \in Calls : /\ calls[c].op = "sendMessage" /\ Done(c)
                         /\ calls[c].arg2 = "hi"
                         /\ calls[c].result = "Can only send messages to friends"

\* C13: a sendMessage call with blank text gets no further than its checks and
\* returns no key, and no stored message has a blank text.
C13_BlankMessageRejected ==
    /\ \A c \in Calls :
          (calls[c].op = "sendMessage" /\ Trim(calls[c].arg2) = "") =>
             /\ calls[c].pc \in {"sm_friends", "done"}
             /\ calls[c].result # "key"
    /\ \A t \in ChatIds : \A i \in DOMAIN messages[t] : Trim(messages[t][i].text) # ""

\* C14: every step of a markMessagesAsRead call leaves the reader's unread
\* count for the thread at 0, and when the call made just before it was a
\* markMessagesAsRead by the same reader for the same thread, no step of the
\* call changes anything that is stored.
C14_MarkReadIdempotent ==
    [][\A d \in Calls :
          (calls'[d].op = "markMessagesAsRead" /\ calls'[d] # calls[d]) =>
             LET reader == calls'[d].currentUserId
                 chatId == generateChatId(reader, calls'[d].arg)
             IN  /\ userChats'[reader][chatId].unreadCount = Some(0)
                 /\ (/\ d > 1
                     /\ calls[d - 1].op = "markMessagesAsRead"
                     /\ calls[d - 1].currentUserId = reader
                     /\ calls[d - 1].arg = calls'[d].arg) => store' = store]_vars

\* a message was unread, and two markMessagesAsRead calls in a row by its
\* recipient have finished
C14_Witness ==
    \E d \in Calls \ {1} :
        /\ calls[d - 1].op = "markMessagesAsRead" /\ calls[d].op = "markMessagesAsRead"
        /\ calls[d - 1].currentUserId = calls[d].currentUserId
        /\ calls[d - 1].arg = calls[d].arg
        /\ Done(d - 1) /\ Done(d)
        /\ \E i \in DOMAIN messages[generateChatId(calls[d].currentUserId, calls[d].arg)] :
              LET m == messages[generateChatId(calls[d].currentUserId, calls[d].arg)][i]
              IN  m.recipientId = calls[d].currentUserId /\ m.read

\* markMessagesAsRead and deleteMessage calls interleaved with each other;
\* sendMessage calls run with no other call in flight.
NextMarkRead ==
    \/ \E c \in Calls, uid \in Users :
           \E other \in Users \ {uid} :
              \/ /\ NoneInFlight
                 /\ \E messageText \in MessageTexts :
                        StartSendMessage(c, uid, other, messageText)
              \/ /\ \A d \in InFlight : calls[d].op # "sendMessage"
                 /\ \/ MarkMessagesAsRead(c, uid, other)
                    \/ \E messageId \in Calls : StartDeleteMessage(c, uid, other, messageId)
    \/ \E c \in Calls :
           \/ SmCheckFriends(c)
           \/ SmSetMessage(c)
           \/ SmSetChatMeta(c)
           \/ SmUpdateOwnChat(c)
           \/ SmGetUnreadCount(c)
           \/ SmUpdateRecipientChat(c)
           \/ SmNotify(c)
           \/ MrGetMessages(c)
           \/ MrUpdateMessages(c)
           \/ DmGetMessage(c)
           \/ DmRemoveMessage(c)

SpecMarkRead == InitChat /\ [][NextMarkRead]_vars

\* C36: a markMessagesAsRead(otherUser) call of reader R with no sendMessage
\* beside it ends with R's unread count of the thread at 0 and read = true on
\* every message of the thread addressed to R; no step of it changes a message
\* addressed to the other user or the other user's userChats entry.
C36_MarkReadFrame ==
    [][\A d \in Calls :
          (calls'[d].op = "markMessagesAsRead" /\ calls'[d] # calls[d]) =>
             LET R == calls'[d].currentUserId
                 other == calls'[d].arg
                 chatId == generateChatId(R, other)
                 log == messages[chatId]
                 after == messages'[chatId]
             IN  /\ userChats'[other] = userChats[other]
                 /\ {log[i] : i \in {j \in DOMAIN log : log[j].recipientId = other}}
                      = {after[i] : i \in {j \in DOMAIN after : after[j].recipientId = other}}
                 /\ \A t \in ChatIds \ {chatId} : messages'[t] = messages[t]
                 /\ calls'[d].pc = "done" =>
                        /\ userChats'[R][chatId].unreadCount = Some(0)
                        /\ \A i \in DOMAIN after :
                               after[i].recipientId = R => after[i].read]_vars

\* u1 has marked the thread read: u2's message to u1 is read and u1's unread
\* count is 0, while u1's message to u2 is still unread
C36_Witness ==
    /\ \E d \in Calls :
          /\ calls[d].op = "markMessagesAsRead" /\ Done(d)
          /\ calls[d].currentUserId = "u1" /\ calls[d].updates # {}
    /\ userChats["u1"]["u1_u2"].unreadCount = Some(0)
    /\ \E i, j \in DOMAIN messages["u1_u2"] :
          /\ messages["u1_u2"][i].recipientId = "u1" /\ messages["u1_u2"][i].read
          /\ messages["u1_u2"][j].recipientId = "u2" /\ ~messages["u1_u2"][j].read

\* C15: in the list of a thread, every message whose sendMessage call has
\* returned carries the text and the sender of that call, stands after every
\* message that the server had stored before it, and the timestamps ascend.
C15_SentMessageListedLast ==
    \A t \in ChatIds :
        LET log == messages[t]
            list == getChatMessages(t)
            At(id) == CHOOSE k \in DOMAIN list : list[k].id = id
        IN  /\ \A k \in DOMAIN list : \A l \in DOMAIN list :
                  k < l => OrZero(list[k].timestamp) <= OrZero(list[l].timestamp)
            /\ \A j \in DOMAIN log :
                  (log[j].senderId # Undefined /\ Done(log[j].id)) =>
                     /\ \E k \in DOMAIN list : list[k].id = log[j].id
                     /\ list[At(log[j].id)].text = calls[log[j].id].arg2
                     /\ list[At(log[j].id)].senderId = calls[log[j].id].currentUserId
                     /\ \A i \in DOMAIN log :
                           (i < j /\ log[i].senderId # Undefined) =>
                               At(log[i].id) < At(log[j].id)

\* C19: generateChatId gives the same thread id for both orders of its
\* arguments; every stored message lies in the thread of its sender and its
\* recipient, taken in either order, and every userChats entry that names the
\* other user lies under the thread id of its owner and that user.
C19_ChatIdSymmetric ==
    /\ \A a, b \in Users : generateChatId(a, b) = generateChatId(b, a)
    /\ \A t \in ChatIds : \A i \in DOMAIN messages[t] :
          messages[t][i].senderId # Undefined =>
             /\ t = generateChatId(messages[t][i].senderId, messages[t][i].recipientId)
             /\ t = generateChatId(messages[t][i].recipientId, messages[t][i].senderId)
    /\ \A u \in Users : \A t \in ChatIds :
          userChats[u][t].otherUserId # Null =>
             /\ t = generateChatId(u, userChats[u][t].otherUserId)
             /\ t = generateChatId(userChats[u][t].otherUserId, u)

\* both participants have sent a message, and both lie in one thread
C19_Witness ==
    \E t \in ChatIds : \E i, j \in DOMAIN messages[t] :
        /\ messages[t][i].senderId = "u1" /\ messages[t][i].recipientId = "u2"
        /\ messages[t][j].senderId = "u2" /\ messages[t][j].recipientId = "u1"

\* C28: once every sendMessage call has completed (and no other chat call was
\* made), chats/{chatId}.lastMessage and the lastMessage of both participants'
\* userChats entries carry the text of the last message of the thread's log.
C28_SummariesCarryLastMessage ==
    (NoneInFlight /\ \A c \in Started : calls[c].op = "sendMessage") =>
        \A t \in ChatIds :
            messages[t] # <<>> =>
                LET last == messages[t][Len(messages[t])]
                IN  /\ chats[t].lastMessage = last.text
                    /\ userChats[last.senderId][t].lastMessage = last.text
                    /\ userChats[last.recipientId][t].lastMessage = last.text

\* ------------------------------------------------------------------ usernames
\* Two users have signed in (their profiles are stored) and none has chosen a
\* username yet.
InitUsernames ==
    /\ users = [u \in Users |-> Profile(Null)]
    /\ usernames = [n \in Names |-> Null]
    /\ NoFriends /\ NoNotifications /\ NoPosts /\ NoChats /\ NoCalls /\ NoPresence

StartProfileCall ==
    \E c \in Calls, uid \in Users, username \in Names : StartSetUsername(c, uid, username)

StepProfileCall ==
    \E c \in Calls :
        \/ SuCheckAvailability(c)
        \/ SuUpdateProfile(c)
        \/ SuSetIndex(c)

NextUsernames == StartProfileCall \/ StepProfileCall

SpecUsernames == InitUsernames /\ [][NextUsernames]_vars

\* C8: at most one users/{id} profile has its username equal to a given name.
C8_UsernameUnique ==
    \A n \in Names :
        Cardinality({u \in Users : users[u].exists /\ users[u].username = n}) <= 1

\* C33: a user id is given a username at most once: a setUsername call for an
\* id whose profile has a username is rejected, so at most one entry of the
\* usernames index maps to a given id.
C33_UsernameAssignedOnce ==
    /\ \A u \in Users : Cardinality({n \in Names : usernames[n] = u}) <= 1
    /\ \A c \in Calls :
          (calls[c].op = "setUsername" /\ Succeeded(c)) =>
              \A d \in Calls :
                  (d < c /\ calls[d].op = "setUsername" /\ Succeeded(d)) =>
                      calls[d].currentUserId # calls[c].currentUserId

\* ------------------------------------------------------------------ presence
\* Nobody is signed in yet; every client is connected.
InitPresence ==
    /\ InitProfiles /\ NoFriends /\ NoNotifications /\ NoPosts /\ NoChats /\ NoCalls
    /\ presence = [u \in Users |-> [status |-> "none", onDisconnect |-> FALSE]]
    /\ clients = [u \in Users |-> [connected |-> TRUE, currentUser |-> FALSE]]

NextPresence ==
    \/ \E c \in Calls, uid \in Users :
           \/ StartSetUserPresence(c, uid)
           \/ StartSignOutUser(c, uid)
    \/ \E c \in Calls :
           \/ SpSetOnline(c)
           \/ SpOnDisconnect(c)
           \/ SoRemovePresence(c)
           \/ SoSignOut(c)
    \/ \E uid \in Users :
           \/ ConnectionDrops(uid)
           \/ ServerOnDisconnect(uid)

\* The server does apply a registered disconnect write once the connection
\* is gone.
SpecPresence ==
    InitPresence /\ [][NextPresence]_vars
        /\ \A uid \in Users : WF_vars(ServerOnDisconnect(uid))

\* C34: if a user's connection is gone while presence/{uid}.status is online,
\* the status becomes offline with no further action of the client; and when
\* signOutUser completes for a signed-in user, presence/{uid}.status is offline.
C34_PresenceDemotedOnDisconnect ==
    /\ \A uid \in Users :
          (~clients[uid].connected /\ presence[uid].status = "online")
              ~> (presence[uid].status = "offline")
    /\ [][\A c \in Calls :
             (calls'[c].op = "signOutUser" /\ calls[c].pc # "done"
                 /\ calls'[c].pc = "done" /\ clients[calls'[c].currentUserId].currentUser) =>
                presence'[calls'[c].currentUserId].status = "offline"]_vars

\* setUsername calls and the storeUserProfile calls of sign-ins, interleaved
NextSignIn ==
    \/ \E c \in Calls, uid \in Users :
           \/ \E username \in Names : StartSetUsername(c, uid, username)
           \/ StartStoreUserProfile(c, uid)
    \/ \E c \in Calls :
           \/ SuCheckAvailability(c)
           \/ SuUpdateProfile(c)
           \/ SuSetIndex(c)
           \/ SupGetProfile(c)
           \/ SupSetProfile(c)

SpecSignIn == InitUsernames /\ [][NextSignIn]_vars

\* C40: storeUserProfile never erases a username: when a setUsername(uid, name)
\* call, the only one made, has succeeded and no call is in flight, whatever
\* storeUserProfile calls ran before, beside or after it,
\* users/{uid}.username is that name and usernames/{name} maps to uid.
C40_SignInKeepsUsername ==
    NoneInFlight =>
        \A c \in Calls :
            ( /\ calls[c].op = "setUsername" /\ Succeeded(c)
              /\ \A d \in Calls \ {c} : calls[d].op # "setUsername" ) =>
                /\ users[calls[c].currentUserId].username = calls[c].arg
                /\ usernames[calls[c].arg] = calls[c].currentUserId

\* ------------------------------------------------------------------ friend properties

\* C2: two sendFriendRequest calls by the same user toward the same username,
\* with no other kind of call around, never both return success, and once they
\* are over exactly one request record from that user to the target exists.
C2_NoDoubleSuccess ==
    (\A c \in Started : calls[c].op = "sendFriendRequest") =>
        \A c, d \in Calls :
            (/\ c # d
             /\ calls[c].currentUserId = calls[d].currentUserId
             /\ calls[c].arg = calls[d].arg
             /\ Done(c) /\ Done(d)
             /\ (Succeeded(c) \/ Succeeded(d)))
            => /\ ~(Succeeded(c) /\ Succeeded(d))
               /\ \A e \in {c, d} : Succeeded(e) =>
                      <<calls[e].targetUid, calls[e].currentUserId>> \in friendRequests

\* C3: a pending request A->B and a pending request B->A never both exist.
C3_NoOppositeRequests ==
    \A a, b \in Users :
        ~(<<b, a>> \in friendRequests /\ <<a, b>> \in friendRequests)

\* C5: when no accept or remove is in flight, friends/A/B exists iff
\* friends/B/A exists.
C5_EdgesSymmetricAtRest ==
    NoneInFlight => \A a, b \in Users : areFriends(a, b) <=> areFriends(b, a)

C10_SendFriendRequestErrors ==
    LET Expected(a, name) ==
            LET t == usernames[name]
            IN  IF t = Null THEN "User not found"
                ELSE IF t = a THEN "Cannot send friend request to yourself"
                ELSE IF areFriends(a, t) \/ areFriends(t, a)
                     THEN "Already friends with this user"
                ELSE IF <<t, a>> \in friendRequests THEN "Friend request already sent"
                ELSE IF <<a, t>> \in friendRequests
                     THEN "This user has already sent you a friend request"
                ELSE "true"
        Sends == {c \in Calls : calls[c].op = "sendFriendRequest"}
    IN  /\ \A c \in Sends : IsLast(c) =>
              /\ (Done(c) /\ calls[c].result # "true") =>
                     calls[c].result = Expected(calls[c].currentUserId, calls[c].arg)
              /\ calls[c].pc = "sfr_set" =>
                     Expected(calls[c].currentUserId, calls[c].arg) = "true"
        /\ \A t, a \in Users :
              /\ <<t, a>> \in friendRequests =>
                     \E c \in Sends : /\ calls[c].currentUserId = a
                                      /\ calls[c].targetUid = t
                                      /\ calls[c].pc = "sfr_notify" \/ Succeeded(c)
              /\ Cardinality({i \in DOMAIN notifications[t] :
                                  /\ notifications[t][i].type = "friend_request"
                                  /\ notifications[t][i].from = a})
                 = Cardinality({c \in Sends : /\ calls[c].currentUserId = a
                                              /\ calls[c].targetUid = t
                                              /\ Succeeded(c)})

\* the sequential retry: a request has been sent and the same call, made
\* again, has failed as a duplicate
C10_Witness ==
    \E c, d \in Calls :
        /\ c < d
        /\ calls[c].op = "sendFriendRequest" /\ calls[d].op = "sendFriendRequest"
        /\ calls[c].currentUserId = calls[d].currentUserId
        /\ calls[c].arg = calls[d].arg
        /\ Succeeded(c)
        /\ Done(d) /\ calls[d].result = "Friend request already sent"
        /\ Len(notifications[calls[c].targetUid]) = 1

\* C11: a friend edge exists only between two users one of whom has written a
\* friend request to the other: an acceptFriendRequest(from) by owner with no
\* pending request from->owner fails and creates no edge and no notification.
C11_AcceptNeedsRequest ==
    /\ \A a, b \in Users :
          areFriends(a, b) =>
              \E c \in Calls : /\ calls[c].op = "sendFriendRequest"
                               /\ {calls[c].currentUserId, calls[c].targetUid} = {a, b}
                               /\ calls[c].pc = "sfr_notify" \/ Succeeded(c)
    /\ \A c \in Calls :
          (/\ calls[c].op = "acceptFriendRequest" /\ Succeeded(c)
           /\ \A d \in Calls : d < c => calls[d].op # "sendFriendRequest")
          => notifications[calls[c].arg] = <<>>

C23_RejectRemovesOnlyTheRequest ==
    [][\A c \in Calls :
          (calls[c].op = "none" /\ calls'[c].op = "rejectFriendRequest") =>
             LET owner == calls'[c].currentUserId
                 from == calls'[c].arg
             IN  /\ calls'[c].pc = "done" /\ calls'[c].result = "true"
                 /\ friendRequests' = friendRequests \ {<<owner, from>>}
                 /\ friends' = friends
                 /\ notifications' = notifications
                 /\ <<owner, from>> \notin friendRequests => store' = store]_vars

\* a request was sent and its target has rejected it twice
C23_Witness ==
    \E c, d, e \in Calls :
        /\ c < d /\ d < e
        /\ calls[c].op = "sendFriendRequest" /\ Succeeded(c)
        /\ calls[d].op = "rejectFriendRequest" /\ calls[e].op = "rejectFriendRequest"
        /\ calls[d].currentUserId = calls[c].targetUid
        /\ calls[e].currentUserId = calls[c].targetUid
        /\ calls[d].arg = calls[c].currentUserId /\ calls[e].arg = calls[c].currentUserId
        /\ Succeeded(d) /\ Succeeded(e)
        /\ friendRequests = {}
        /\ Len(notifications[calls[c].targetUid]) = 1

\* C27: whenever no friend operation is in flight, no pending request exists in
\* either direction between two users who have a friend edge.
C27_NoRequestBetweenFriends ==
    NoneInFlight =>
        \A a, b \in Users :
            (<<a, b>> \in friends \/ <<b, a>> \in friends) =>
                (<<a, b>> \notin friendRequests /\ <<b, a>> \notin friendRequests)

====
